---- MODULE Spec2Model ----
(***************************************************************************)
(* Model of the in-memory key-value adapter (MemoryAdapter, the "final"    *)
(* memory adapter) and of the default serialization codec it stores        *)
(* values with.                                                            *)
(*                                                                         *)
(* JavaScript strings are sequences of one-character strings; JavaScript   *)
(* values are records with a type tag.  The text stored in the map is the  *)
(* text JSON.stringify produces.                                           *)
(***************************************************************************)
EXTENDS Integers, Sequences, FiniteSets, TLC

(***************************************************************************)
(* JavaScript values                                                       *)
(***************************************************************************)
JsValue(tag, num, chars, octets, keyNames, children) ==
  [t |-> tag, n |-> num, s |-> chars, bytes |-> octets,
   names |-> keyNames, items |-> children]

Str(chars) == JsValue("string", 0, chars, <<>>, <<>>, <<>>)
Num(num) == JsValue("number", num, <<>>, <<>>, <<>>, <<>>)
Bool(b) == JsValue("boolean", IF b THEN 1 ELSE 0, <<>>, <<>>, <<>>, <<>>)
Null == JsValue("null", 0, <<>>, <<>>, <<>>, <<>>)
Undefined == JsValue("undefined", 0, <<>>, <<>>, <<>>, <<>>)
\* an Error, with (the beginning of) its message
Err(message) == JsValue("error", 0, message, <<>>, <<>>, <<>>)
Buf(octets) == JsValue("buffer", 0, <<>>, octets, <<>>, <<>>)
Arr(children) == JsValue("array", 0, <<>>, <<>>, <<>>, children)
Obj(keyNames, children) == JsValue("object", 0, <<>>, <<>>, keyNames, children)

(***************************************************************************)
(* String helpers                                                          *)
(***************************************************************************)
startsWith(chars, prefix) ==
  /\ Len(chars) >= Len(prefix)
  /\ SubSeq(chars, 1, Len(prefix)) = prefix

slice(chars, from) == SubSeq(chars, from + 1, Len(chars))

Marker == <<":">>
Base64Marker == <<":", "b", "a", "s", "e", "6", "4", ":">>

(***************************************************************************)
(* Base64 (Buffer.toString("base64") and Buffer.from(text, "base64"))      *)
(***************************************************************************)
Base64Alphabet ==
  <<"A","B","C","D","E","F","G","H","I","J","K","L","M",
    "N","O","P","Q","R","S","T","U","V","W","X","Y","Z",
    "a","b","c","d","e","f","g","h","i","j","k","l","m",
    "n","o","p","q","r","s","t","u","v","w","x","y","z",
    "0","1","2","3","4","5","6","7","8","9","+","/">>

Base64Char(sextet) == Base64Alphabet[sextet + 1]

IsBase64Char(c) == \E i \in 1..64 : Base64Alphabet[i] = c

Base64Index(c) == (CHOOSE i \in 1..64 : Base64Alphabet[i] = c) - 1

RECURSIVE Base64Encode(_)
Base64Encode(octets) ==
  IF Len(octets) = 0 THEN <<>>
  ELSE IF Len(octets) = 1 THEN
    << Base64Char(octets[1] \div 4),
       Base64Char((octets[1] % 4) * 16), "=", "=" >>
  ELSE IF Len(octets) = 2 THEN
    << Base64Char(octets[1] \div 4),
       Base64Char((octets[1] % 4) * 16 + octets[2] \div 16),
       Base64Char((octets[2] % 16) * 4), "=" >>
  ELSE
    << Base64Char(octets[1] \div 4),
       Base64Char((octets[1] % 4) * 16 + octets[2] \div 16),
       Base64Char((octets[2] % 16) * 4 + octets[3] \div 64),
       Base64Char(octets[3] % 64) >>
    \o Base64Encode(SubSeq(octets, 4, Len(octets)))

\* the sextets of the characters that belong to the alphabet, up to the
\* first padding character
RECURSIVE Base64Sextets(_)
Base64Sextets(chars) ==
  IF Len(chars) = 0 \/ Head(chars) = "=" THEN <<>>
  ELSE IF IsBase64Char(Head(chars))
    THEN <<Base64Index(Head(chars))>> \o Base64Sextets(Tail(chars))
    ELSE Base64Sextets(Tail(chars))

RECURSIVE Base64Octets(_)
Base64Octets(sextets) ==
  IF Len(sextets) < 2 THEN <<>>
  ELSE IF Len(sextets) = 2 THEN
    << sextets[1] * 4 + sextets[2] \div 16 >>
  ELSE IF Len(sextets) = 3 THEN
    << sextets[1] * 4 + sextets[2] \div 16,
       (sextets[2] % 16) * 16 + sextets[3] \div 4 >>
  ELSE
    << sextets[1] * 4 + sextets[2] \div 16,
       (sextets[2] % 16) * 16 + sextets[3] \div 4,
       (sextets[3] % 4) * 64 + sextets[4] >>
    \o Base64Octets(SubSeq(sextets, 5, Len(sextets)))

Base64Decode(chars) == Base64Octets(Base64Sextets(chars))

(***************************************************************************)
(* JSON.stringify and JSON.parse                                           *)
(***************************************************************************)
Digit(d) == <<"0","1","2","3","4","5","6","7","8","9">>[d + 1]

RECURSIVE Digits(_)
Digits(num) ==
  IF num < 0 THEN <<"-">> \o Digits(0 - num)
  ELSE IF num < 10 THEN <<Digit(num)>>
  ELSE Digits(num \div 10) \o <<Digit(num % 10)>>

Quote(chars) == <<"\"">> \o chars \o <<"\"">>

\* the JSON tree JSON.stringify writes for a value: a Buffer is replaced by
\* its toJSON() form, undefined is null inside an array and is left out of
\* an object
RECURSIVE toJSON(_)
RECURSIVE BufferData(_)
BufferData(octets) ==
  IF Len(octets) = 0 THEN <<>>
  ELSE <<Num(Head(octets))>> \o BufferData(Tail(octets))

RECURSIVE toJSONItems(_)
toJSONItems(children) ==
  IF Len(children) = 0 THEN <<>>
  ELSE << IF Head(children).t = "undefined" THEN Null
          ELSE toJSON(Head(children)) >> \o toJSONItems(Tail(children))

RECURSIVE DefinedIndexes(_, _)
DefinedIndexes(children, i) ==
  IF i > Len(children) THEN <<>>
  ELSE (IF children[i].t = "undefined" THEN <<>> ELSE <<i>>)
       \o DefinedIndexes(children, i + 1)

toJSON(value) ==
  IF value.t = "buffer" THEN
    Obj(<< <<"t","y","p","e">>, <<"d","a","t","a">> >>,
        << Str(<<"B","u","f","f","e","r">>), Arr(BufferData(value.bytes)) >>)
  ELSE IF value.t = "array" THEN Arr(toJSONItems(value.items))
  ELSE IF value.t = "object" THEN
    LET keep == DefinedIndexes(value.items, 1)
    IN Obj([i \in 1..Len(keep) |-> value.names[keep[i]]],
           [i \in 1..Len(keep) |-> toJSON(value.items[keep[i]])])
  ELSE value

RECURSIVE JsonText(_)
RECURSIVE JsonJoin(_, _, _)
JsonJoin(keyNames, children, i) ==
  IF i > Len(children) THEN <<>>
  ELSE (IF i > 1 THEN <<",">> ELSE <<>>)
       \o (IF Len(keyNames) > 0 THEN Quote(keyNames[i]) \o <<":">> ELSE <<>>)
       \o JsonText(children[i])
       \o JsonJoin(keyNames, children, i + 1)

JsonText(doc) ==
  IF doc.t = "string" THEN Quote(doc.s)
  ELSE IF doc.t = "number" THEN Digits(doc.n)
  ELSE IF doc.t = "boolean" THEN
    (IF doc.n = 1 THEN <<"t","r","u","e">> ELSE <<"f","a","l","s","e">>)
  ELSE IF doc.t = "array" THEN
    <<"[">> \o JsonJoin(<<>>, doc.items, 1) \o <<"]">>
  ELSE IF doc.t = "object" THEN
    <<"{">> \o JsonJoin(doc.names, doc.items, 1) \o <<"}">>
  ELSE <<"n","u","l","l">>

JSONstringify(value) == JsonText(toJSON(value))


\* the values callers store
Values ==
  { Str(<<"v">>),
    Arr(<<Str(<<":", "v">>)>>) }

\* every JSON document whose text can be in the store
JsonDocs ==
  {Null}
  \cup { toJSON(v) : v \in Values }
  \cup { Str(Marker \o v.s) : v \in Values }
  \cup { Str(Base64Marker \o Base64Encode(v.bytes)) : v \in Values }

JSONparse(text) == CHOOSE doc \in JsonDocs : JsonText(doc) = text

(***************************************************************************)
(* The default codec                                                       *)
(***************************************************************************)
defaultSerialize(value) ==
  IF value.t = "undefined" \/ value.t = "null" THEN <<"n","u","l","l">>
  ELSE IF value.t = "string" THEN
    JSONstringify(IF startsWith(value.s, Marker)
                  THEN Str(Marker \o value.s) ELSE value)
  ELSE IF value.t = "buffer" THEN
    JSONstringify(Str(Base64Marker \o Base64Encode(value.bytes)))
  ELSE JSONstringify(value)

\* the reviver of defaultDeserialize, applied to one parsed value
Reviver(value) ==
  IF value.t = "string" THEN
    IF startsWith(value.s, Base64Marker)
    THEN Buf(Base64Decode(slice(value.s, 8)))
    ELSE IF startsWith(value.s, Marker) THEN Str(slice(value.s, 1))
    ELSE value
  ELSE value

\* JSON.parse with a reviver: children are revived before their holder
RECURSIVE Revive(_)
RECURSIVE ReviveItems(_)
ReviveItems(children) ==
  IF Len(children) = 0 THEN <<>>
  ELSE <<Revive(Head(children))>> \o ReviveItems(Tail(children))

Revive(doc) ==
  IF doc.t = "array" THEN Reviver(Arr(ReviveItems(doc.items)))
  ELSE IF doc.t = "object" THEN Reviver(Obj(doc.names, ReviveItems(doc.items)))
  ELSE Reviver(doc)

defaultDeserialize(text) == Revive(JSONparse(text))

(***************************************************************************)
(* Bounds of the model                                                     *)
(***************************************************************************)
ConfiguredTTL == 2  \* the default TTL of the configuration that has one
StartTime == 10     \* Date.now() when the adapter is constructed
TimeSpan == 2       \* the clock advances at most this far
MaxCalls == 3       \* the calls of one run, a batch counting one per element

Keys == { <<"a">>, <<"b", "b">> }

\* an optional number is <<>> (undefined) or <<n>>
NoNumber == <<>>
\* the ttl argument of set and mset: left out, 0, or 1
TTLs == { NoNumber, <<0>>, <<1>> }

\* the configurations the adapter is constructed with: two keys at most, no
\* default TTL and no timer; or one key at most, a default TTL and a timer
Config(ttl, keyLimit, interval) ==
  [defaultTTL |-> ttl, maxKeys |-> keyLimit, cleanupInterval |-> interval,
   serialization |-> "default"]
Configs == { Config(0, 2, 0), Config(ConfiguredTTL, 1, 1) }

\* the lists passed to mget, mset and deleteMany: none, one or two elements
ListsOf(S) == { <<>> } \cup { <<x>> : x \in S } \cup { <<x, y>> : x \in S, y \in S }

\* a configuration with a codec of the caller's: its serialize is
\* JSON.stringify but throws for an array, its deserialize throws
FaultyConfig == [Config(0, 2, 1) EXCEPT !.serialization = "faulty"]

\* KeyValueConfig: the namespace, the default TTL and throwOnErrors given to
\* KeyValue.create (NoNumber, the empty string and FALSE stand for a field
\* left undefined)
KeyValueConfig(namespace, ttl) ==
  [namespace |-> namespace, defaultTTL |-> ttl, throwOnErrors |-> FALSE]

BareConfig == KeyValueConfig(<<>>, NoNumber)
KeyValueConfigs == { BareConfig, KeyValueConfig(<<"n">>, <<1>>) }

KeyLists == ListsOf(Keys)
EntryLists == ListsOf(Keys \X Values)

(***************************************************************************)
(* State                                                                   *)
(***************************************************************************)
VARIABLES
  store,         \* Map<string, StorageEntry>: key -> [value, expires]
  stats,         \* MemoryStats
  cleanupTimer,  \* TRUE when the interval timer is set
  options,       \* Required<MemoryAdapterConfig>
  props,         \* KeyValueProps of the facade over the adapter
  events,        \* KVEventEmitter: the observers, and what the last call delivered
  now,           \* Date.now()
  pending,       \* the batch call (mset, deleteMany) suspended at an await
  last,          \* the call that ran in the last step and what it returned
  calls          \* the number of calls made so far

vars ==
  <<store, stats, cleanupTimer, options, props, events, now, pending, last,
    calls>>

\* new KVEventEmitter(): no observer of any type of event, nothing delivered
EventTypes == {"set", "get", "delete", "clear", "expired", "error"}
Unobserved ==
  [observers |-> [type \in EventTypes |-> <<>>], delivered |-> <<>>]

resetStats ==
  [hits |-> 0, misses |-> 0, sets |-> 0, deletes |-> 0, expired |-> 0,
   keys |-> 0, memory |-> 0]

RECURSIVE SumOver(_, _)
SumOver(f, S) ==
  IF S = {} THEN 0
  ELSE LET x == CHOOSE y \in S : TRUE IN f[x] + SumOver(f, S \ {x})

\* mutant: the estimate leaves out the 16 bytes of overhead of an entry
getMemoryUsage_noOverhead(map) ==
  SumOver([k \in DOMAIN map |-> Len(k) * 2 + Len(map[k].value) * 2],
          DOMAIN map)

getMemoryUsage(map) ==
  SumOver([k \in DOMAIN map |-> Len(k) * 2 + Len(map[k].value) * 2 + 16],
          DOMAIN map)

updateStats(map, counters) ==
  [counters EXCEPT !.keys = Cardinality(DOMAIN map),
                   !.memory = getMemoryUsage(map)]

\* mutant: an entry is expired from the time of its expiry on
isExpired_atExpiry(entry, t) ==
  /\ entry.expires # NoNumber
  /\ entry.expires[1] # 0
  /\ t >= entry.expires[1]

\* entry.expires && t > entry.expires
isExpired(entry, t) ==
  /\ entry.expires # NoNumber
  /\ entry.expires[1] # 0
  /\ t > entry.expires[1]

\* Map.prototype.delete and Map.prototype.set
MapDelete(map, key) == [k \in DOMAIN map \ {key} |-> map[k]]
MapSet(map, key, entry) ==
  [k \in DOMAIN map \cup {key} |-> IF k = key THEN entry ELSE map[k]]

\* this.serialization.serialize(value) and this.serialization.deserialize(
\* text) with the codec of the configuration: whether the call returned (ok)
\* or threw, and what it returned
serialize(opts, value) ==
  IF opts.serialization = "default"
  THEN [ok |-> TRUE, text |-> defaultSerialize(value)]
  ELSE IF value.t = "array" THEN [ok |-> FALSE, text |-> <<>>]
  ELSE [ok |-> TRUE, text |-> JSONstringify(value)]

deserialize(opts, text) ==
  IF opts.serialization = "default"
  THEN [ok |-> TRUE, value |-> defaultDeserialize(text)]
  ELSE [ok |-> FALSE, value |-> Undefined]

(***************************************************************************)
(* The operations of MemoryAdapter, as functions of the map, the counters, *)
(* the configuration and the clock.  Each gives the map and the counters   *)
(* after the call, whether the call returned (ok) or threw, and the value  *)
(* it returned.                                                            *)
(***************************************************************************)
Outcome(map, counters, returned, result) ==
  [store |-> map, stats |-> counters, ok |-> returned, ret |-> result]

\* mutant: an entry that does not decode is dropped from the map
get_dropsUndecodable(map, counters, key, opts, t) ==
  IF key \notin DOMAIN map THEN
    Outcome(map, [counters EXCEPT !.misses = @ + 1], TRUE, Null)
  ELSE IF isExpired(map[key], t) THEN
    LET removed == MapDelete(map, key)
    IN Outcome(removed,
               updateStats(removed, [counters EXCEPT !.expired = @ + 1]),
               TRUE, Null)
  ELSE
    LET decoded == deserialize(opts, map[key].value)
        removed == MapDelete(map, key)
    IN IF decoded.ok
       THEN Outcome(map, [counters EXCEPT !.hits = @ + 1], TRUE, decoded.value)
       ELSE Outcome(removed,
                    updateStats(removed, [counters EXCEPT !.hits = @ + 1]),
                    FALSE, Undefined)

\* mutant: an entry whose value decodes to null counts as a miss
get_nullIsMiss(map, counters, key, opts, t) ==
  IF key \notin DOMAIN map THEN
    Outcome(map, [counters EXCEPT !.misses = @ + 1], TRUE, Null)
  ELSE IF isExpired(map[key], t) THEN
    LET removed == MapDelete(map, key)
    IN Outcome(removed,
               updateStats(removed, [counters EXCEPT !.expired = @ + 1]),
               TRUE, Null)
  ELSE
    LET decoded == deserialize(opts, map[key].value)
    IN IF decoded.ok /\ decoded.value = Null
       THEN Outcome(map, [counters EXCEPT !.misses = @ + 1], TRUE, Null)
       ELSE Outcome(map, [counters EXCEPT !.hits = @ + 1], decoded.ok,
                    decoded.value)

\* mutant: hits is counted after the value has been decoded
get_countsAfterDecode(map, counters, key, opts, t) ==
  IF key \notin DOMAIN map THEN
    Outcome(map, [counters EXCEPT !.misses = @ + 1], TRUE, Null)
  ELSE IF isExpired(map[key], t) THEN
    LET removed == MapDelete(map, key)
    IN Outcome(removed,
               updateStats(removed, [counters EXCEPT !.expired = @ + 1]),
               TRUE, Null)
  ELSE
    LET decoded == deserialize(opts, map[key].value)
    IN IF decoded.ok
       THEN Outcome(map, [counters EXCEPT !.hits = @ + 1], TRUE, decoded.value)
       ELSE Outcome(map, counters, FALSE, Undefined)

get(map, counters, key, opts, t) ==
  IF key \notin DOMAIN map THEN
    Outcome(map, [counters EXCEPT !.misses = @ + 1], TRUE, Null)
  ELSE IF isExpired(map[key], t) THEN
    LET removed == MapDelete(map, key)
    IN Outcome(removed,
               updateStats(removed, [counters EXCEPT !.expired = @ + 1]),
               TRUE, Null)
  ELSE
    LET decoded == deserialize(opts, map[key].value)
    IN Outcome(map, [counters EXCEPT !.hits = @ + 1], decoded.ok,
               decoded.value)

\* mutant: the entries that have expired do not count against the limit
limitReached_liveOnly(map, key, opts) ==
  /\ key \notin DOMAIN map
  /\ Cardinality({ k \in DOMAIN map : ~isExpired(map[k], now) })
       >= opts.maxKeys

\* mutant: the limit is compared with > instead of >=
limitReached_offByOne(map, key, opts) ==
  /\ key \notin DOMAIN map
  /\ Cardinality(DOMAIN map) > opts.maxKeys

\* mutant: the limit is checked for keys that have an entry too
limitReached_anyKey(map, key, opts) ==
  Cardinality(DOMAIN map) >= opts.maxKeys

\* !this.store.has(key) && this.store.size >= this.options.maxKeys
limitReached(map, key, opts) ==
  /\ key \notin DOMAIN map
  /\ Cardinality(DOMAIN map) >= opts.maxKeys

\* mutant: the default TTL wins over the ttl argument
effectiveTTL_defaultFirst(ttl, opts) ==
  IF opts.defaultTTL # 0 THEN <<opts.defaultTTL>> ELSE ttl

\* mutant: the default TTL is never applied
effectiveTTL_noDefault(ttl, opts) == ttl

\* ttl ?? (this.options.defaultTTL || undefined)
effectiveTTL(ttl, opts) ==
  IF ttl # NoNumber THEN ttl
  ELSE IF opts.defaultTTL # 0 THEN <<opts.defaultTTL>>
  ELSE NoNumber

\* mutant: a TTL of 0 is a TTL (effectiveTTL !== undefined ? ... )
expiresAt_zeroCounts(ttl, t) ==
  IF ttl # NoNumber THEN <<t + ttl[1]>> ELSE NoNumber

\* effectiveTTL ? Date.now() + effectiveTTL : undefined
expiresAt(ttl, t) ==
  IF ttl # NoNumber /\ ttl[1] # 0 THEN <<t + ttl[1]>> ELSE NoNumber

\* mutant: sets is counted before the value is serialized
set_countsBeforeSerialize(map, counters, key, value, ttl, opts, t) ==
  IF limitReached(map, key, opts) THEN
    Outcome(map, counters, FALSE, Undefined)
  ELSE
    LET expires == expiresAt(effectiveTTL(ttl, opts), t)
        serialized == serialize(opts, value)
        written == MapSet(map, key,
                          [value |-> serialized.text, expires |-> expires])
        counted == [counters EXCEPT !.sets = @ + 1]
    IN IF ~serialized.ok THEN Outcome(map, counted, FALSE, Undefined)
       ELSE Outcome(written, updateStats(written, counted), TRUE, Undefined)

\* mutant: sets is counted before the limit is checked
set_countsBeforeLimit(map, counters, key, value, ttl, opts, t) ==
  IF limitReached(map, key, opts) THEN
    Outcome(map, [counters EXCEPT !.sets = @ + 1], FALSE, Undefined)
  ELSE
    LET expires == expiresAt(effectiveTTL(ttl, opts), t)
        serialized == serialize(opts, value)
        written == MapSet(map, key,
                          [value |-> serialized.text, expires |-> expires])
    IN IF ~serialized.ok THEN Outcome(map, counters, FALSE, Undefined)
       ELSE Outcome(written,
                    updateStats(written, [counters EXCEPT !.sets = @ + 1]),
                    TRUE, Undefined)

set(map, counters, key, value, ttl, opts, t) ==
  IF limitReached(map, key, opts) THEN
    Outcome(map, counters, FALSE, Undefined)
  ELSE
    LET expires == expiresAt(effectiveTTL(ttl, opts), t)
        serialized == serialize(opts, value)
        written == MapSet(map, key,
                          [value |-> serialized.text, expires |-> expires])
    IN IF ~serialized.ok THEN Outcome(map, counters, FALSE, Undefined)
       ELSE Outcome(written,
                    updateStats(written, [counters EXCEPT !.sets = @ + 1]),
                    TRUE, Undefined)

\* mutant: the delete of an expired entry counts it as expired
delete_countsExpired(map, counters, key) ==
  IF key \in DOMAIN map THEN
    LET removed == MapDelete(map, key)
        counted == IF isExpired(map[key], now)
                   THEN [counters EXCEPT !.deletes = @ + 1, !.expired = @ + 1]
                   ELSE [counters EXCEPT !.deletes = @ + 1]
    IN Outcome(removed, updateStats(removed, counted), TRUE, Bool(TRUE))
  ELSE Outcome(map, counters, TRUE, Bool(FALSE))

\* mutant: deletes is counted for a key without entry too
delete_countsAlways(map, counters, key) ==
  LET removed == MapDelete(map, key)
  IN Outcome(removed,
             updateStats(removed, [counters EXCEPT !.deletes = @ + 1]),
             TRUE, Bool(key \in DOMAIN map))

delete(map, counters, key) ==
  IF key \in DOMAIN map THEN
    LET removed == MapDelete(map, key)
    IN Outcome(removed,
               updateStats(removed, [counters EXCEPT !.deletes = @ + 1]),
               TRUE, Bool(TRUE))
  ELSE Outcome(map, counters, TRUE, Bool(FALSE))

\* mutant: an expired entry is reported absent but left in the map
exists_noEviction(map, counters, key, t) ==
  IF key \notin DOMAIN map THEN Outcome(map, counters, TRUE, Bool(FALSE))
  ELSE Outcome(map, counters, TRUE, Bool(~isExpired(map[key], t)))

exists(map, counters, key, t) ==
  IF key \notin DOMAIN map THEN Outcome(map, counters, TRUE, Bool(FALSE))
  ELSE IF isExpired(map[key], t) THEN
    LET removed == MapDelete(map, key)
    IN Outcome(removed,
               updateStats(removed, [counters EXCEPT !.expired = @ + 1]),
               TRUE, Bool(FALSE))
  ELSE Outcome(map, counters, TRUE, Bool(TRUE))

\* mutant: the map is emptied, the counters are kept
clear_keepsCounters(map, counters) ==
  LET empty == [k \in {} |-> map[k]]
  IN Outcome(empty, updateStats(empty, counters), TRUE, Undefined)

\* mutant: clear resets hits and misses and keeps the other counters
clear_resetsHitsOnly(map, counters) ==
  LET empty == [k \in {} |-> map[k]]
  IN Outcome(empty,
             updateStats(empty, [counters EXCEPT !.hits = 0, !.misses = 0]),
             TRUE, Undefined)

clear(map, counters) ==
  Outcome([k \in {} |-> map[k]], resetStats, TRUE, Undefined)

\* mutant: the sweep removes every entry that has an expiry, passed or not
cleanup_sweepsAll(map, counters, t) ==
  LET gone == { k \in DOMAIN map : map[k].expires # NoNumber }
      kept == [k \in DOMAIN map \ gone |-> map[k]]
  IN Outcome(kept,
             updateStats(kept,
                         [counters EXCEPT !.expired = @ + Cardinality(gone)]),
             TRUE, Num(Cardinality(gone)))

cleanup(map, counters, t) ==
  LET gone == { k \in DOMAIN map : isExpired(map[k], t) }
      kept == [k \in DOMAIN map \ gone |-> map[k]]
  IN Outcome(kept,
             updateStats(kept,
                         [counters EXCEPT !.expired = @ + Cardinality(gone)]),
             TRUE, Num(Cardinality(gone)))

\* getStats(): updateStats(), then a copy of the statistics, { ...this.stats }
StatNames ==
  << <<"h", "i", "t", "s">>, <<"m", "i", "s", "s", "e", "s">>,
     <<"s", "e", "t", "s">>, <<"d", "e", "l", "e", "t", "e", "s">>,
     <<"e", "x", "p", "i", "r", "e", "d">>, <<"k", "e", "y", "s">>,
     <<"m", "e", "m", "o", "r", "y">> >>

getStats(map, counters) ==
  LET updated == updateStats(map, counters)
  IN Outcome(map, updated, TRUE,
             Obj(StatNames,
                 << Num(updated.hits), Num(updated.misses), Num(updated.sets),
                    Num(updated.deletes), Num(updated.expired),
                    Num(updated.keys), Num(updated.memory) >>))

\* Array.from(this.store.keys()).  The map of the model keeps no order of
\* insertion: the keys are listed in the order of KeyOrder.
KeyOrder == << <<"a">>, <<"b", "b">> >>

RECURSIVE keysFrom(_, _)
keysFrom(map, i) ==
  IF i > Len(KeyOrder) THEN <<>>
  ELSE (IF KeyOrder[i] \in DOMAIN map THEN <<Str(KeyOrder[i])>> ELSE <<>>)
       \o keysFrom(map, i + 1)

keys(map, counters) == Outcome(map, counters, TRUE, Arr(keysFrom(map, 1)))

\* mutant: the keys that get reports absent are left out of the list
RECURSIVE mget_skipsAbsent(_, _, _, _, _)
mget_skipsAbsent(map, counters, keyList, opts, t) ==
  IF Len(keyList) = 0 THEN Outcome(map, counters, TRUE, Arr(<<>>))
  ELSE
    LET first == get(map, counters, Head(keyList), opts, t)
        rest == mget_skipsAbsent(first.store, first.stats, Tail(keyList),
                                 opts, t)
    IN Outcome(rest.store, rest.stats, first.ok /\ rest.ok,
               IF first.ok /\ rest.ok
               THEN Arr((IF first.ret = Null THEN <<>> ELSE <<first.ret>>)
                        \o rest.ret.items)
               ELSE Undefined)

\* mutant: the clock advances between the read of one key and the next
RECURSIVE mget_clockBetweenReads(_, _, _, _, _)
mget_clockBetweenReads(map, counters, keyList, opts, t) ==
  IF Len(keyList) = 0 THEN Outcome(map, counters, TRUE, Arr(<<>>))
  ELSE
    LET first == get(map, counters, Head(keyList), opts, t)
        rest == mget_clockBetweenReads(first.store, first.stats,
                                       Tail(keyList), opts, t + 1)
    IN Outcome(rest.store, rest.stats, first.ok /\ rest.ok,
               IF first.ok /\ rest.ok
               THEN Arr(<<first.ret>> \o rest.ret.items)
               ELSE Undefined)

\* Promise.all(keys.map(key => this.get(key))): the gets run one after the
\* other inside the call of map, none of them suspends; every get runs, and
\* the call throws when one of them threw
RECURSIVE mget(_, _, _, _, _)
mget(map, counters, keyList, opts, t) ==
  IF Len(keyList) = 0 THEN Outcome(map, counters, TRUE, Arr(<<>>))
  ELSE
    LET first == get(map, counters, Head(keyList), opts, t)
        rest == mget(first.store, first.stats, Tail(keyList), opts, t)
    IN Outcome(rest.store, rest.stats, first.ok /\ rest.ok,
               IF first.ok /\ rest.ok
               THEN Arr(<<first.ret>> \o rest.ret.items)
               ELSE Undefined)

(***************************************************************************)
(* Calls                                                                   *)
(***************************************************************************)
\* what `last` records of a call: its name, the key it worked on, whether
\* it returned (ok) or threw, and the value it returned
Call(name, key, returned, result) ==
  [op |-> name, key |-> key, ok |-> returned, ret |-> result]

NoKey == <<>>

Idle ==
  [op |-> "idle", entries |-> <<>>, keys |-> <<>>, ttl |-> NoNumber,
   deletedAny |-> FALSE]

\* every call of a run counts against MaxCalls, a batch call once for each
\* element of its list
Spend(n) == calls + n <= MaxCalls /\ calls' = calls + n
Budget == Spend(1)
BatchCost(list) == IF Len(list) = 0 THEN 1 ELSE Len(list)

\* new MemoryAdapter(config)
Construct(config) ==
  /\ store = [k \in {} |-> Null]
  /\ stats = resetStats
  /\ options = config
  /\ events = Unobserved
  /\ cleanupTimer = (options.cleanupInterval > 0)
  /\ now = StartTime
  /\ pending = Idle
  /\ last = Call("new", NoKey, TRUE, Undefined)
  /\ calls = 0

\* KeyValue.create(config): namespace: config.namespace || "",
\* defaultTTL: config.defaultTTL, throwOnErrors: config.throwOnErrors ?? false
create(config) ==
  [namespace |-> config.namespace, defaultTTL |-> config.defaultTTL,
   throwOnErrors |-> config.throwOnErrors]

\* the adapter under a facade created with nothing but the adapter
Init == \E config \in Configs : Construct(config) /\ props = create(BareConfig)

\* the clock advances
Tick ==
  /\ now < StartTime + TimeSpan
  /\ now' = now + 1
  /\ last' = Call("tick", NoKey, TRUE, Undefined)
  /\ UNCHANGED <<store, stats, cleanupTimer, options, props, events, pending, calls>>

\* mutant: the map is changed in one step and the counters in a later one
Apply_mapBeforeCounters(outcome) ==
  /\ store' = outcome.store
  /\ stats' = stats

\* an operation that runs without suspension changes the map and the
\* counters in one step
Apply(outcome) ==
  /\ store' = outcome.store
  /\ stats' = outcome.stats

CallGet(key) ==
  /\ Budget
  /\ LET out == get(store, stats, key, options, now)
     IN Apply(out) /\ last' = Call("get", key, out.ok, out.ret)
  /\ UNCHANGED <<cleanupTimer, options, props, events, now, pending>>

CallSet(key, value, ttl) ==
  /\ Budget
  /\ LET out == set(store, stats, key, value, ttl, options, now)
     IN Apply(out) /\ last' = Call("set", key, out.ok, out.ret)
  /\ UNCHANGED <<cleanupTimer, options, props, events, now, pending>>

CallDelete(key) ==
  /\ Budget
  /\ LET out == delete(store, stats, key)
     IN Apply(out) /\ last' = Call("delete", key, out.ok, out.ret)
  /\ UNCHANGED <<cleanupTimer, options, props, events, now, pending>>

CallExists(key) ==
  /\ Budget
  /\ LET out == exists(store, stats, key, now)
     IN Apply(out) /\ last' = Call("exists", key, out.ok, out.ret)
  /\ UNCHANGED <<cleanupTimer, options, props, events, now, pending>>

CallClear ==
  /\ Budget
  /\ LET out == clear(store, stats)
     IN Apply(out) /\ last' = Call("clear", NoKey, out.ok, out.ret)
  /\ UNCHANGED <<cleanupTimer, options, props, events, now, pending>>

CallMget(keyList) ==
  /\ Spend(BatchCost(keyList))
  /\ LET out == mget(store, stats, keyList, options, now)
     IN Apply(out) /\ last' = Call("mget", NoKey, out.ok, out.ret)
  /\ UNCHANGED <<cleanupTimer, options, props, events, now, pending>>

CallCleanup ==
  /\ Budget
  /\ LET out == cleanup(store, stats, now)
     IN Apply(out) /\ last' = Call("cleanup", NoKey, out.ok, out.ret)
  /\ UNCHANGED <<cleanupTimer, options, props, events, now, pending>>

CallKeys ==
  /\ Budget
  /\ LET out == keys(store, stats)
     IN Apply(out) /\ last' = Call("keys", NoKey, out.ok, out.ret)
  /\ UNCHANGED <<cleanupTimer, options, props, events, now, pending>>

CallGetStats ==
  /\ Budget
  /\ LET out == getStats(store, stats)
     IN Apply(out) /\ last' = Call("getStats", NoKey, out.ok, out.ret)
  /\ UNCHANGED <<cleanupTimer, options, props, events, now, pending>>

\* mutant: the callback of the timer sweeps nothing
startCleanup_noSweep ==
  /\ cleanupTimer
  /\ pending.op = "idle"
  /\ last' = Call("timer", NoKey, TRUE, Num(0))
  /\ UNCHANGED <<store, stats, cleanupTimer, options, props, events, now, pending, calls>>

\* mutant: the interval is not cleared, its callback goes on running after
\* destroy has dropped the handle
startCleanup_notCleared ==
  /\ options.cleanupInterval > 0
  /\ pending.op = "idle"
  /\ LET out == cleanup(store, stats, now)
     IN Apply(out) /\ last' = Call("timer", NoKey, out.ok, out.ret)
  /\ UNCHANGED <<cleanupTimer, options, props, events, now, pending, calls>>

\* the callback of setInterval: a task of its own, which the event loop
\* runs only when no suspended call is waiting to resume
startCleanup ==
  /\ cleanupTimer
  /\ pending.op = "idle"
  /\ LET out == cleanup(store, stats, now)
     IN Apply(out) /\ last' = Call("timer", NoKey, out.ok, out.ret)
  /\ UNCHANGED <<cleanupTimer, options, props, events, now, pending, calls>>

\* mutant: destroy leaves the timer set
destroy_keepsTimer ==
  /\ Budget
  /\ LET out == clear(store, stats)
     IN Apply(out) /\ last' = Call("destroy", NoKey, out.ok, out.ret)
  /\ UNCHANGED <<cleanupTimer, options, props, events, now, pending>>

destroy ==
  /\ Budget
  /\ cleanupTimer' = FALSE
  /\ LET out == clear(store, stats)
     IN Apply(out) /\ last' = Call("destroy", NoKey, out.ok, out.ret)
  /\ UNCHANGED <<options, props, events, now, pending>>

\* mutant: the loop of mset goes on after a set that threw
msetIteration_continuesAfterError(entries, ttl) ==
  LET key == Head(entries)[1]
      value == Head(entries)[2]
      out == set(store, stats, key, value, ttl, options, now)
  IN /\ Apply(out)
     /\ pending' =
          IF Len(entries) > 1
          THEN [Idle EXCEPT !.op = "mset", !.entries = Tail(entries), !.ttl = ttl]
          ELSE Idle
     /\ last' = Call("mset", key, out.ok, out.ret)

\* one iteration of the loop of mset: `await this.set(key, value, ttl)`.
\* The set runs at once; the loop resumes in a later step, or ends when the
\* set threw or the list is at its end.
msetIteration(entries, ttl) ==
  LET key == Head(entries)[1]
      value == Head(entries)[2]
      out == set(store, stats, key, value, ttl, options, now)
  IN /\ Apply(out)
     /\ pending' =
          IF out.ok /\ Len(entries) > 1
          THEN [Idle EXCEPT !.op = "mset", !.entries = Tail(entries), !.ttl = ttl]
          ELSE Idle
     /\ last' = Call("mset", key, out.ok, out.ret)

CallMset(entries, ttl) ==
  /\ pending.op = "idle"
  /\ Spend(BatchCost(entries))
  /\ IF Len(entries) = 0
     THEN /\ last' = Call("mset", NoKey, TRUE, Undefined)
          /\ UNCHANGED <<store, stats, pending>>
     ELSE msetIteration(entries, ttl)
  /\ UNCHANGED <<cleanupTimer, options, props, events, now>>

ResumeMset ==
  /\ pending.op = "mset"
  /\ UNCHANGED calls
  /\ msetIteration(pending.entries, pending.ttl)
  /\ UNCHANGED <<cleanupTimer, options, props, events, now>>

\* mutant: deleteMany returns at the first key it has deleted
deleteManyIteration_stopsAtFirst(keyList, deletedAny) ==
  LET out == delete(store, stats, Head(keyList))
      any == deletedAny \/ out.ret = Bool(TRUE)
  IN /\ Apply(out)
     /\ pending' =
          IF Len(keyList) > 1 /\ ~any
          THEN [Idle EXCEPT !.op = "deleteMany", !.keys = Tail(keyList),
                            !.deletedAny = any]
          ELSE Idle
     /\ last' = Call("deleteMany", Head(keyList), TRUE,
                     IF Len(keyList) > 1 /\ ~any THEN Undefined ELSE Bool(any))

\* one iteration of the loop of deleteMany: `await this.delete(key)`; the
\* call returns deletedAny after the last iteration
deleteManyIteration(keyList, deletedAny) ==
  LET out == delete(store, stats, Head(keyList))
      any == deletedAny \/ out.ret = Bool(TRUE)
  IN /\ Apply(out)
     /\ pending' =
          IF Len(keyList) > 1
          THEN [Idle EXCEPT !.op = "deleteMany", !.keys = Tail(keyList),
                            !.deletedAny = any]
          ELSE Idle
     /\ last' = Call("deleteMany", Head(keyList), TRUE,
                     IF Len(keyList) > 1 THEN Undefined ELSE Bool(any))

CallDeleteMany(keyList) ==
  /\ pending.op = "idle"
  /\ Spend(BatchCost(keyList))
  /\ IF Len(keyList) = 0
     THEN /\ last' = Call("deleteMany", NoKey, TRUE, Bool(FALSE))
          /\ UNCHANGED <<store, stats, pending>>
     ELSE deleteManyIteration(keyList, FALSE)
  /\ UNCHANGED <<cleanupTimer, options, props, events, now>>

ResumeDeleteMany ==
  /\ pending.op = "deleteMany"
  /\ UNCHANGED calls
  /\ deleteManyIteration(pending.keys, pending.deletedAny)
  /\ UNCHANGED <<cleanupTimer, options, props, events, now>>

Next ==
  \/ Tick
  \/ \E key \in Keys : CallGet(key)
  \/ \E key \in Keys, value \in Values, ttl \in TTLs : CallSet(key, value, ttl)
  \/ \E key \in Keys : CallDelete(key)
  \/ \E key \in Keys : CallExists(key)
  \/ CallClear
  \/ \E keyList \in KeyLists : CallMget(keyList)
  \/ \E entries \in EntryLists, ttl \in TTLs : CallMset(entries, ttl)
  \/ ResumeMset
  \/ \E keyList \in KeyLists : CallDeleteMany(keyList)
  \/ ResumeDeleteMany
  \/ CallCleanup
  \/ CallKeys
  \/ CallGetStats
  \/ startCleanup
  \/ destroy

Spec == Init /\ [][Next]_vars

\* An adapter whose callers also store null and undefined.
Nullish == { Null, Undefined }

CallSetNullish(key, value) == CallSet(key, value, NoNumber) /\ UNCHANGED props

NullishInit == Construct(Config(0, 2, 1)) /\ props = create(BareConfig)

NullishNext ==
  \/ Next
  \/ \E key \in Keys, value \in Nullish : CallSetNullish(key, value)

NullishSpec == NullishInit /\ [][NullishNext]_vars

\* An adapter whose callers also pass a negative ttl to set.
NegativeTTL == <<-1>>

CallSetNegativeTTL(key, value) == CallSet(key, value, NegativeTTL) /\ UNCHANGED props

NegativeTTLNext ==
  \/ Next
  \/ \E key \in Keys, value \in Values : CallSetNegativeTTL(key, value)

NegativeTTLSpec == Init /\ [][NegativeTTLNext]_vars

\* An adapter constructed with the codec that throws.
CodecInit == Construct(FaultyConfig) /\ props = create(BareConfig)

CodecSpec == CodecInit /\ [][Next]_vars

\* An adapter constructed with a timer.  The event loop runs the callback
\* of a timer that is set, and resumes a call suspended at an await.
TimerInit == Init /\ options.cleanupInterval > 0

LiveSpec ==
  /\ TimerInit
  /\ [][Next]_vars
  /\ WF_vars(startCleanup)
  /\ WF_vars(ResumeMset)
  /\ WF_vars(ResumeDeleteMany)

(***************************************************************************)
(* The KeyValue facade over the adapter                                    *)
(***************************************************************************)
\* what callers pass to the facade: keys (the empty string and a number
\* among them), values (undefined among them), and for a batch an array or
\* something that is not an array
KeyArgs == { Str(<<>>), Str(<<"a">>), Str(<<"b", "b">>), Num(7) }
ValueArgs == { Undefined, Str(<<"v">>) }
NotAnArray == Str(<<"a">>)
KeyListArgs == { Arr(list) : list \in ListsOf(KeyArgs) } \cup { NotAnArray }
EntryListArgs ==
  { Arr(list) :
      list \in ListsOf({ Arr(<<key, value>>) : key \in KeyArgs, value \in ValueArgs }) }
  \cup { NotAnArray }

\* mutant: every string is taken for a key, the empty one too
isValidKey_anyString(key) == key.t = "string"

\* the negation of `!key || typeof key !== "string"`
isValidKey(key) == key.t = "string" /\ key.s # <<>>

\* mutant: the key goes to the adapter without the namespace
buildKey_noNamespace(key) == key

\* this.props.namespace ? `${this.props.namespace}:${key}` : key
buildKey(key) ==
  IF props.namespace # <<>> THEN props.namespace \o <<":">> \o key ELSE key

\* ttl ?? this.props.defaultTTL
facadeTTL(ttl) == IF ttl # NoNumber THEN ttl ELSE props.defaultTTL

\* the facade throws on its arguments, before any call of the adapter
Reject(name) ==
  /\ Budget
  /\ last' = Call(name, NoKey, FALSE, Undefined)
  /\ UNCHANGED <<store, stats, cleanupTimer, options, props, events, now, pending>>

\* Array.isArray(keys), and keys.map has thrown for no key
isValidKeyList(keyList) ==
  /\ keyList.t = "array"
  /\ \A i \in 1..Len(keyList.items) : isValidKey(keyList.items[i])

\* Array.isArray(entries), and entries.map has thrown for no entry
isValidEntryList(entries) ==
  /\ entries.t = "array"
  /\ \A i \in 1..Len(entries.items) :
       /\ isValidKey(entries.items[i].items[1])
       /\ entries.items[i].items[2].t # "undefined"

\* keys.map((key) => this.buildKey(key))
fullKeys(keyList) ==
  [i \in 1..Len(keyList.items) |-> buildKey(keyList.items[i].s)]

\* entries.map(([key, value]) => [this.buildKey(key), value])
fullEntries(entries) ==
  [i \in 1..Len(entries.items) |->
     <<buildKey(entries.items[i].items[1].s), entries.items[i].items[2]>>]

\* the error a call of the facade throws when its adapter call has thrown:
\* the error of the adapter, or a new Error("Failed to ...") made from it
AdapterError == Err(<<"a", "d", "a", "p", "t", "e", "r">>)
WrappedError == Err(<<"F", "a", "i", "l", "e", "d">>)

\* handleError: the error event is emitted; if (this.props.throwOnErrors)
\* throw error.  TRUE when handleError throws the error of the adapter.
handleError == props.throwOnErrors

\* catch (error) { this.handleError(operation, fullKey, error);
\*                 throw new Error(`Failed to ...`) }
\* what the call of the facade returns or throws for an outcome of the
\* adapter call
facadeResult(out) ==
  IF out.ok THEN out.ret
  ELSE IF handleError THEN AdapterError
  ELSE WrappedError

KeyValueGet(key) ==
  IF isValidKey(key)
  THEN /\ Budget
       /\ LET out == get(store, stats, buildKey(key.s), options, now)
          IN /\ Apply(out)
             /\ last' = Call("get", buildKey(key.s), out.ok, facadeResult(out))
       /\ UNCHANGED <<cleanupTimer, options, props, events, now, pending>>
  ELSE Reject("get")

KeyValueSet(key, value, ttl) ==
  IF isValidKey(key) /\ value.t # "undefined"
  THEN /\ Budget
       /\ LET out == set(store, stats, buildKey(key.s), value, facadeTTL(ttl),
                         options, now)
          IN /\ Apply(out)
             /\ last' = Call("set", buildKey(key.s), out.ok, facadeResult(out))
       /\ UNCHANGED <<cleanupTimer, options, props, events, now, pending>>
  ELSE Reject("set")

KeyValueDelete(key) ==
  IF isValidKey(key)
  THEN /\ Budget
       /\ LET out == delete(store, stats, buildKey(key.s))
          IN /\ Apply(out)
             /\ last' = Call("delete", buildKey(key.s), out.ok,
                             facadeResult(out))
       /\ UNCHANGED <<cleanupTimer, options, props, events, now, pending>>
  ELSE Reject("delete")

KeyValueExists(key) ==
  IF isValidKey(key) THEN CallExists(buildKey(key.s)) ELSE Reject("exists")

KeyValueClear ==
  /\ Budget
  /\ LET out == clear(store, stats)
     IN Apply(out) /\ last' = Call("clear", NoKey, out.ok, facadeResult(out))
  /\ UNCHANGED <<cleanupTimer, options, props, events, now, pending>>

KeyValueMget(keyList) ==
  IF isValidKeyList(keyList) THEN CallMget(fullKeys(keyList)) ELSE Reject("mget")

KeyValueMset(entries, ttl) ==
  IF isValidEntryList(entries)
  THEN CallMset(fullEntries(entries), facadeTTL(ttl))
  ELSE Reject("mset")

KeyValueDeleteMany(keyList) ==
  IF isValidKeyList(keyList)
  THEN CallDeleteMany(fullKeys(keyList))
  ELSE Reject("deleteMany")

\* the calls of the facade, the clock, and what the event loop runs of the
\* adapter under it
FacadeNext ==
  \/ Tick
  \/ \E key \in KeyArgs : KeyValueGet(key)
  \/ \E key \in KeyArgs, value \in ValueArgs, ttl \in TTLs :
       KeyValueSet(key, value, ttl)
  \/ \E key \in KeyArgs : KeyValueDelete(key)
  \/ \E key \in KeyArgs : KeyValueExists(key)
  \/ KeyValueClear
  \/ \E keyList \in KeyListArgs : KeyValueMget(keyList)
  \/ \E entries \in EntryListArgs, ttl \in TTLs : KeyValueMset(entries, ttl)
  \/ ResumeMset
  \/ \E keyList \in KeyListArgs : KeyValueDeleteMany(keyList)
  \/ ResumeDeleteMany
  \/ startCleanup

\* A facade created over an adapter with a timer, with or without namespace
FacadeInit ==
  \E config \in KeyValueConfigs :
    Construct(Config(0, 2, 1)) /\ props = create(config)

FacadeSpec == FacadeInit /\ [][FacadeNext]_vars

\* A facade, with throwOnErrors or without, over an adapter that fails: it
\* holds one key at most and its codec throws on deserialize
FailingConfig == [FaultyConfig EXCEPT !.maxKeys = 1]

ErrorInit ==
  \E throwing \in BOOLEAN :
    /\ Construct(FailingConfig)
    /\ props = create([BareConfig EXCEPT !.throwOnErrors = throwing])

ErrorSpec == ErrorInit /\ [][FacadeNext]_vars

(***************************************************************************)
(* The event-emitting adapter (memory-basic) and its KVEventEmitter        *)
(***************************************************************************)
\* a handler subscribed to a type of event either records the event or throws
Handlers == {"records", "throws"}

\* the subscriptions made right after construction: none; one recording
\* handler for every type; a throwing handler and then a recording one for
\* every type
ObserverSetups ==
  { [type \in EventTypes |-> handlers] :
      handlers \in { <<>>, <<"records">>, <<"throws", "records">> } }

\* the configuration of the event-emitting adapter: one key at most, no
\* default TTL, a timer, and events
BasicConfig(ttl, keyLimit, interval, emit) ==
  [defaultTTL |-> ttl, maxKeys |-> keyLimit, cleanupInterval |-> interval,
   serialization |-> "default", emitEvents |-> emit]
BasicConfigs == { BasicConfig(0, 1, 1, TRUE) }

\* KVEvent: its type and its key (NoKey for an event without key)
Event(type, key) == [type |-> type, key |-> key]

\* what one call of a handler is recorded as: which handler of the type, and
\* the event it was called with
Delivery(i, event) == [handler |-> i, type |-> event.type, key |-> event.key]

NothingSent == [threw |-> FALSE, delivered |-> <<>>]

\* mutant: the emitter calls the handlers without try/catch, so that the
\* first handler that throws ends the loop and emit throws
emit_noCatch(event, observers) ==
  LET handlers == observers[event.type]
      throwing == { i \in 1..Len(handlers) : handlers[i] = "throws" }
      reached == IF throwing = {} THEN Len(handlers)
                 ELSE CHOOSE i \in throwing : \A j \in throwing : i <= j
  IN [threw |-> throwing # {},
      delivered |-> [i \in 1..reached |-> Delivery(i, event)]]

\* KVEventEmitter.emit: every handler of the type of the event is called,
\* in the order of subscription; what a handler throws is caught
emit(event, observers) ==
  [threw |-> FALSE,
   delivered |-> [i \in 1..Len(observers[event.type]) |-> Delivery(i, event)]]

\* emitEvent: if (this.adapterConfig.emitEvents) this.events.emit(event)
emitEvent(event, opts, observers) ==
  IF opts.emitEvents THEN emit(event, observers) ELSE NothingSent

\* the calls of emitEvent of one method, in their order, up to the first
\* that throws
RECURSIVE emitAll(_, _, _)
emitAll(emitted, opts, observers) ==
  IF emitted = <<>> THEN NothingSent
  ELSE LET first == emitEvent(Head(emitted), opts, observers)
           rest == emitAll(Tail(emitted), opts, observers)
       IN IF first.threw THEN first
          ELSE [threw |-> rest.threw,
                delivered |-> first.delivered \o rest.delivered]

\* KVStats of the adapter
basicResetStats ==
  [hits |-> 0, misses |-> 0, sets |-> 0, deletes |-> 0, expired |-> 0,
   errors |-> 0, keys |-> 0]

updateKeysCount(map, counters) ==
  [counters EXCEPT !.keys = Cardinality(DOMAIN map)]

\* what the try block of a method has done when it returns or throws: the
\* map, the counters, whether it returned, the value returned, and the
\* events passed to emitEvent on the way
Body(map, counters, returned, result, emitted) ==
  [store |-> map, stats |-> counters, ok |-> returned, ret |-> result,
   emitted |-> emitted]

\* try { ... } catch (error) { this.stats.errors++;
\* this.emitError(operation, key, error); throw error; }
tryCatch(body, key, opts, observers) ==
  LET sent == emitAll(body.emitted, opts, observers)
  IN IF body.ok /\ ~sent.threw
     THEN [store |-> body.store, stats |-> body.stats, ok |-> TRUE,
           ret |-> body.ret, delivered |-> sent.delivered]
     ELSE LET caught == emitEvent(Event("error", key), opts, observers)
          IN [store |-> body.store,
              stats |-> [body.stats EXCEPT !.errors = @ + 1],
              ok |-> FALSE, ret |-> Undefined,
              delivered |-> sent.delivered \o caught.delivered]

basicGet(map, counters, key, opts, t, observers) ==
  tryCatch(
    IF key \notin DOMAIN map THEN
      Body(map, [counters EXCEPT !.misses = @ + 1], TRUE, Null,
           <<Event("get", key)>>)
    ELSE IF isExpired(map[key], t) THEN
      LET removed == MapDelete(map, key)
      IN Body(removed,
              updateKeysCount(removed, [counters EXCEPT !.expired = @ + 1]),
              TRUE, Null, <<Event("expired", key)>>)
    ELSE
      LET decoded == deserialize(opts, map[key].value)
          counted == [counters EXCEPT !.hits = @ + 1]
      IN IF decoded.ok
         THEN Body(map, counted, TRUE, decoded.value, <<Event("get", key)>>)
         ELSE Body(map, counted, FALSE, Undefined, <<>>),
    key, opts, observers)

\* effectiveTTL && effectiveTTL > 0 ? Date.now() + effectiveTTL : undefined
basicExpiresAt(ttl, t) ==
  IF ttl # NoNumber /\ ttl[1] # 0 /\ ttl[1] > 0 THEN <<t + ttl[1]>>
  ELSE NoNumber

\* set: the throw of the full map is inside the try block, after an
\* emitError of its own
basicSet(map, counters, key, value, ttl, opts, t, observers) ==
  tryCatch(
    IF limitReached(map, key, opts) THEN
      Body(map, counters, FALSE, Undefined, <<Event("error", key)>>)
    ELSE
      LET expires == basicExpiresAt(effectiveTTL(ttl, opts), t)
          serialized == serialize(opts, value)
          written == MapSet(map, key,
                            [value |-> serialized.text, expires |-> expires])
      IN IF ~serialized.ok THEN Body(map, counters, FALSE, Undefined, <<>>)
         ELSE Body(written,
                   updateKeysCount(written, [counters EXCEPT !.sets = @ + 1]),
                   TRUE, Undefined, <<Event("set", key)>>),
    key, opts, observers)

basicDelete(map, counters, key, opts, observers) ==
  tryCatch(
    IF key \in DOMAIN map THEN
      LET removed == MapDelete(map, key)
      IN Body(removed,
              updateKeysCount(removed, [counters EXCEPT !.deletes = @ + 1]),
              TRUE, Bool(TRUE), <<Event("delete", key)>>)
    ELSE Body(map, counters, TRUE, Bool(FALSE), <<>>),
    key, opts, observers)

basicExists(map, counters, key, opts, t, observers) ==
  tryCatch(
    IF key \notin DOMAIN map THEN Body(map, counters, TRUE, Bool(FALSE), <<>>)
    ELSE IF isExpired(map[key], t) THEN
      LET removed == MapDelete(map, key)
      IN Body(removed,
              updateKeysCount(removed, [counters EXCEPT !.expired = @ + 1]),
              TRUE, Bool(FALSE), <<Event("expired", key)>>)
    ELSE Body(map, counters, TRUE, Bool(TRUE), <<>>),
    key, opts, observers)

basicClear(map, counters, opts, observers) ==
  tryCatch(Body([k \in {} |-> map[k]], basicResetStats, TRUE, Undefined,
                <<Event("clear", NoKey)>>),
           NoKey, opts, observers)

\* the events of the keys the sweep removes, in the order of the map
RECURSIVE expiredEvents(_, _)
expiredEvents(gone, i) ==
  IF i > Len(KeyOrder) THEN <<>>
  ELSE (IF KeyOrder[i] \in gone THEN <<Event("expired", KeyOrder[i])>> ELSE <<>>)
       \o expiredEvents(gone, i + 1)

\* cleanup(): no try block; the sweep emits an expired event for each entry
\* it removes
basicCleanup(map, counters, opts, t, observers) ==
  LET gone == { k \in DOMAIN map : isExpired(map[k], t) }
      kept == [k \in DOMAIN map \ gone |-> map[k]]
      sent == emitAll(expiredEvents(gone, 1), opts, observers)
  IN [store |-> kept,
      stats |-> updateKeysCount(kept, [counters EXCEPT
                                         !.expired = @ + Cardinality(gone)]),
      ok |-> TRUE, ret |-> Num(Cardinality(gone)),
      delivered |-> sent.delivered]

\* keys(): this.cleanup(), then the keys of the map
basicKeys(map, counters, opts, t, observers) ==
  LET swept == basicCleanup(map, counters, opts, t, observers)
  IN [swept EXCEPT !.ret = Arr(keysFrom(swept.store, 1))]

\* Promise.all(keys.map(key => this.get(key))): every get runs, in order
RECURSIVE basicMget(_, _, _, _, _, _)
basicMget(map, counters, keyList, opts, t, observers) ==
  IF keyList = <<>>
  THEN [store |-> map, stats |-> counters, ok |-> TRUE, ret |-> Arr(<<>>),
        delivered |-> <<>>]
  ELSE LET first == basicGet(map, counters, Head(keyList), opts, t, observers)
           rest == basicMget(first.store, first.stats, Tail(keyList), opts, t,
                             observers)
       IN [store |-> rest.store, stats |-> rest.stats,
           ok |-> first.ok /\ rest.ok,
           ret |-> IF first.ok /\ rest.ok
                   THEN Arr(<<first.ret>> \o rest.ret.items)
                   ELSE Undefined,
           delivered |-> first.delivered \o rest.delivered]

\* new MemoryAdapter(config) of the event-emitting adapter, and the
\* subscriptions made on it
BasicConstruct(config, setup) ==
  /\ store = [k \in {} |-> Null]
  /\ stats = basicResetStats
  /\ options = config
  /\ props = create(BareConfig)
  /\ events = [observers |-> setup, delivered |-> <<>>]
  /\ cleanupTimer = (options.cleanupInterval > 0)
  /\ now = StartTime
  /\ pending = Idle
  /\ last = Call("new", NoKey, TRUE, Undefined)
  /\ calls = 0

EventInit ==
  \E config \in BasicConfigs, setup \in ObserverSetups :
    BasicConstruct(config, setup)

BasicApply(out) ==
  /\ store' = out.store
  /\ stats' = out.stats
  /\ events' = [events EXCEPT !.delivered = out.delivered]

BasicCallGet(key) ==
  /\ Budget
  /\ LET out == basicGet(store, stats, key, options, now, events.observers)
     IN BasicApply(out) /\ last' = Call("get", key, out.ok, out.ret)
  /\ UNCHANGED <<cleanupTimer, options, props, now, pending>>

BasicCallSet(key, value, ttl) ==
  /\ Budget
  /\ LET out == basicSet(store, stats, key, value, ttl, options, now,
                         events.observers)
     IN BasicApply(out) /\ last' = Call("set", key, out.ok, out.ret)
  /\ UNCHANGED <<cleanupTimer, options, props, now, pending>>

BasicCallDelete(key) ==
  /\ Budget
  /\ LET out == basicDelete(store, stats, key, options, events.observers)
     IN BasicApply(out) /\ last' = Call("delete", key, out.ok, out.ret)
  /\ UNCHANGED <<cleanupTimer, options, props, now, pending>>

BasicCallExists(key) ==
  /\ Budget
  /\ LET out == basicExists(store, stats, key, options, now, events.observers)
     IN BasicApply(out) /\ last' = Call("exists", key, out.ok, out.ret)
  /\ UNCHANGED <<cleanupTimer, options, props, now, pending>>

BasicCallClear ==
  /\ Budget
  /\ LET out == basicClear(store, stats, options, events.observers)
     IN BasicApply(out) /\ last' = Call("clear", NoKey, out.ok, out.ret)
  /\ UNCHANGED <<cleanupTimer, options, props, now, pending>>

BasicCallMget(keyList) ==
  /\ Spend(BatchCost(keyList))
  /\ LET out == basicMget(store, stats, keyList, options, now,
                          events.observers)
     IN BasicApply(out) /\ last' = Call("mget", NoKey, out.ok, out.ret)
  /\ UNCHANGED <<cleanupTimer, options, props, now, pending>>

BasicCallCleanup ==
  /\ Budget
  /\ LET out == basicCleanup(store, stats, options, now, events.observers)
     IN BasicApply(out) /\ last' = Call("cleanup", NoKey, out.ok, out.ret)
  /\ UNCHANGED <<cleanupTimer, options, props, now, pending>>

BasicCallKeys ==
  /\ Budget
  /\ LET out == basicKeys(store, stats, options, now, events.observers)
     IN BasicApply(out) /\ last' = Call("keys", NoKey, out.ok, out.ret)
  /\ UNCHANGED <<cleanupTimer, options, props, now, pending>>

\* the callback of the timer of startCleanupTimer
startCleanupTimer ==
  /\ cleanupTimer
  /\ pending.op = "idle"
  /\ LET out == basicCleanup(store, stats, options, now, events.observers)
     IN BasicApply(out) /\ last' = Call("timer", NoKey, out.ok, out.ret)
  /\ UNCHANGED <<cleanupTimer, options, props, now, pending, calls>>

\* destroy(): the timer, the map, the observers and the counters are cleared
basicDestroy ==
  /\ Budget
  /\ cleanupTimer' = FALSE
  /\ store' = [k \in {} |-> Null]
  /\ stats' = basicResetStats
  /\ events' = Unobserved
  /\ last' = Call("destroy", NoKey, TRUE, Undefined)
  /\ UNCHANGED <<options, props, now, pending>>

\* one iteration of the loop of mset of the event-emitting adapter
basicMsetIteration(entries, ttl) ==
  LET key == Head(entries)[1]
      value == Head(entries)[2]
      out == basicSet(store, stats, key, value, ttl, options, now,
                      events.observers)
  IN /\ BasicApply(out)
     /\ pending' =
          IF out.ok /\ Len(entries) > 1
          THEN [Idle EXCEPT !.op = "mset", !.entries = Tail(entries),
                            !.ttl = ttl]
          ELSE Idle
     /\ last' = Call("mset", key, out.ok, out.ret)

BasicCallMset(entries, ttl) ==
  /\ pending.op = "idle"
  /\ Spend(BatchCost(entries))
  /\ IF Len(entries) = 0
     THEN /\ last' = Call("mset", NoKey, TRUE, Undefined)
          /\ UNCHANGED <<store, stats, events, pending>>
     ELSE basicMsetIteration(entries, ttl)
  /\ UNCHANGED <<cleanupTimer, options, props, now>>

BasicResumeMset ==
  /\ pending.op = "mset"
  /\ UNCHANGED calls
  /\ basicMsetIteration(pending.entries, pending.ttl)
  /\ UNCHANGED <<cleanupTimer, options, props, now>>

\* one iteration of the loop of deleteMany of the event-emitting adapter
basicDeleteManyIteration(keyList, deletedAny) ==
  LET out == basicDelete(store, stats, Head(keyList), options,
                         events.observers)
      any == deletedAny \/ out.ret = Bool(TRUE)
  IN /\ BasicApply(out)
     /\ pending' =
          IF Len(keyList) > 1
          THEN [Idle EXCEPT !.op = "deleteMany", !.keys = Tail(keyList),
                            !.deletedAny = any]
          ELSE Idle
     /\ last' = Call("deleteMany", Head(keyList), TRUE,
                     IF Len(keyList) > 1 THEN Undefined ELSE Bool(any))

BasicCallDeleteMany(keyList) ==
  /\ pending.op = "idle"
  /\ Spend(BatchCost(keyList))
  /\ IF Len(keyList) = 0
     THEN /\ last' = Call("deleteMany", NoKey, TRUE, Bool(FALSE))
          /\ UNCHANGED <<store, stats, events, pending>>
     ELSE basicDeleteManyIteration(keyList, FALSE)
  /\ UNCHANGED <<cleanupTimer, options, props, now>>

BasicResumeDeleteMany ==
  /\ pending.op = "deleteMany"
  /\ UNCHANGED calls
  /\ basicDeleteManyIteration(pending.keys, pending.deletedAny)
  /\ UNCHANGED <<cleanupTimer, options, props, now>>

\* the clock advances under the event-emitting adapter
BasicTick == Tick /\ UNCHANGED events

EventNext ==
  \/ BasicTick
  \/ \E key \in Keys : BasicCallGet(key)
  \/ \E key \in Keys, value \in Values, ttl \in TTLs :
       BasicCallSet(key, value, ttl)
  \/ \E key \in Keys : BasicCallDelete(key)
  \/ \E key \in Keys : BasicCallExists(key)
  \/ BasicCallClear
  \/ \E keyList \in KeyLists : BasicCallMget(keyList)
  \/ \E entries \in EntryLists, ttl \in TTLs : BasicCallMset(entries, ttl)
  \/ BasicResumeMset
  \/ \E keyList \in KeyLists : BasicCallDeleteMany(keyList)
  \/ BasicResumeDeleteMany
  \/ BasicCallCleanup
  \/ BasicCallKeys
  \/ startCleanupTimer
  \/ basicDestroy

EventSpec == EventInit /\ [][EventNext]_vars

(***************************************************************************)
(* Type correctness                                                        *)
(***************************************************************************)
TypeOK ==
  /\ DOMAIN store \subseteq Keys \cup { buildKey(k) : k \in Keys }
  /\ \A k \in DOMAIN store :
       \/ store[k].expires = NoNumber
       \/ Len(store[k].expires) = 1 /\ store[k].expires[1] \in Int
  /\ stats.keys = Cardinality(DOMAIN store)
  /\ cleanupTimer \in BOOLEAN
  /\ now \in StartTime..(StartTime + TimeSpan)
  /\ calls \in 0..MaxCalls

(***************************************************************************)
(* Capacity                                                                *)
(***************************************************************************)
Size == Cardinality(DOMAIN store)

\* C1: with maxKeys = N the map never holds more than N entries, whatever
\* calls, batch iterations and sweeps interleave.
C1_SizeWithinMaxKeys == Size <= options.maxKeys

\* a suspended mset is about to write a new key into a full map
C1_Witness ==
  /\ Size = options.maxKeys
  /\ pending.op = "mset"
  /\ Head(pending.entries)[1] \notin DOMAIN store

\* C2: a set of a new key into a map that already holds maxKeys entries
\* throws and leaves the map and every counter as they were.
C2_RejectedSetChangesNothing ==
  [][ (/\ last'.op = "set"
       /\ last'.key \notin DOMAIN store
       /\ Size >= options.maxKeys)
      => (/\ ~last'.ok
          /\ store' = store
          /\ stats' = stats) ]_vars

\* a set has just been rejected by a full map that an earlier set filled
C2_Witness ==
  /\ last.op = "set"
  /\ ~last.ok
  /\ last.key \notin DOMAIN store
  /\ Size = options.maxKeys
  /\ stats.sets = options.maxKeys

\* C3: a set of a key that has an entry returns, whatever the size of the
\* map, and the map holds the same keys afterwards.
C3_OverwriteNeverOverflows ==
  [][ (last'.op = "set" /\ last'.key \in DOMAIN store)
      => (/\ last'.ok
          /\ DOMAIN store' = DOMAIN store
          /\ stats'.sets = stats.sets + 1) ]_vars

\* the map is full and the last set overwrote one of its keys: more sets have
\* succeeded than there are entries, and nothing was ever removed
C3_Witness ==
  /\ last.op = "set"
  /\ last.ok
  /\ Size = options.maxKeys
  /\ stats.sets > Size
  /\ stats.deletes = 0
  /\ stats.expired = 0

(***************************************************************************)
(* Time to live                                                            *)
(***************************************************************************)
\* C7: with a default TTL D > 0, a set with a ttl argument T > 0 writes the
\* expiry now + T; the configuration stays as it was, and a set without a
\* ttl argument writes the expiry now + D.
C7_ExplicitTTLOverridesDefault ==
  [][ (last'.op = "set" /\ last'.ok /\ options.defaultTTL > 0)
      => \A value \in Values, ttl \in TTLs :
        LET key == last'.key IN
        CallSet(key, value, ttl)
        => (/\ options' = options
            /\ (ttl # NoNumber /\ ttl[1] > 0)
                 => store'[key].expires = <<now + ttl[1]>>
            /\ ttl = NoNumber
                 => store'[key].expires = <<now + options.defaultTTL>>) ]_vars

\* a set has just written an expiry that is not the one the default TTL gives
C7_Witness ==
  /\ options.defaultTTL > 0
  /\ last.op = "set"
  /\ last.ok
  /\ store[last.key].expires # NoNumber
  /\ store[last.key].expires # <<now + options.defaultTTL>>

\* C8: a set with a ttl argument of 0 writes an entry without expiry, with
\* or without a default TTL; at any later time get finds such an entry,
\* exists reports it, and cleanup (called or run by the timer) keeps it.
C8_ZeroTTLNeverExpires ==
  [][ /\ (last'.op = "set" /\ last'.ok)
           => \A value \in Values :
                CallSet(last'.key, value, <<0>>)
                => store'[last'.key].expires = NoNumber
      /\ \A key \in DOMAIN store :
           store[key].expires = NoNumber
           => /\ (last'.op = "get" /\ last'.key = key)
                   => (/\ store' = store
                       /\ stats'.hits = stats.hits + 1
                       /\ stats'.expired = stats.expired
                       /\ last'.ret = defaultDeserialize(store[key].value))
              /\ (last'.op = "exists" /\ last'.key = key)
                   => (store' = store /\ last'.ret = Bool(TRUE))
              /\ last'.op \in {"cleanup", "timer", "tick"}
                   => (key \in DOMAIN store' /\ store'[key] = store[key]) ]_vars

\* under a default TTL, an entry without expiry has been read by get after
\* the clock has run to its end
C8_Witness ==
  /\ options.defaultTTL > 0
  /\ now = StartTime + TimeSpan
  /\ last.op = "get"
  /\ last.key \in DOMAIN store
  /\ store[last.key].expires = NoNumber
  /\ stats.hits > 0

\* C9: without a ttl argument, set and every iteration of mset write the
\* expiry now + D under a default TTL D > 0, and no expiry when the default
\* TTL is 0.
DefaultExpiry ==
  IF options.defaultTTL > 0 THEN <<now + options.defaultTTL>> ELSE NoNumber

C9_DefaultTTLApplied ==
  [][ /\ (last'.op = "set" /\ last'.ok)
           => \A value \in Values :
                CallSet(last'.key, value, NoNumber)
                => store'[last'.key].expires = DefaultExpiry
      /\ (last'.op = "mset" /\ last'.ok /\ last'.key \in Keys)
           => /\ \A entries \in EntryLists :
                   (Len(entries) > 0 /\ Head(entries)[1] = last'.key
                    /\ CallMset(entries, NoNumber))
                   => store'[last'.key].expires = DefaultExpiry
              /\ (pending.ttl = NoNumber /\ ResumeMset)
                   => store'[last'.key].expires = DefaultExpiry ]_vars

\* an iteration of mset has just written an entry that expires a default TTL
\* from now
C9_Witness ==
  /\ options.defaultTTL > 0
  /\ last.op = "mset"
  /\ last.ok
  /\ last.key \in DOMAIN store
  /\ store[last.key].expires = <<now + options.defaultTTL>>

(***************************************************************************)
(* Reads                                                                   *)
(***************************************************************************)
\* the value whose set wrote the entry
ValueWritten(entry) == CHOOSE v \in Values : defaultSerialize(v) = entry.value

\* the entry has an expiry and the clock is past it
PastExpiry(entry) == entry.expires # NoNumber /\ now > entry.expires[1]

\* C4: of an entry set with a positive TTL, a get before the expiry returns
\* the value; a get after the expiry that finds the entry returns absent,
\* removes it and adds 1 to expired; a get of a key without entry returns
\* absent and leaves expired as it is.
C4_TTLCorrectness ==
  [][ last'.op = "get"
      => LET key == last'.key IN
         /\ (/\ key \in DOMAIN store
             /\ store[key].expires # NoNumber
             /\ now < store[key].expires[1])
              => last'.ret = ValueWritten(store[key])
         /\ (key \in DOMAIN store /\ PastExpiry(store[key]))
              => (/\ last'.ret = Null
                  /\ key \notin DOMAIN store'
                  /\ stats'.expired = stats.expired + 1)
         /\ key \notin DOMAIN store
              => (/\ last'.ret = Null
                  /\ key \notin DOMAIN store'
                  /\ stats'.expired = stats.expired) ]_vars

\* C5: a get of a key whose entry has expired removes the entry, adds 1 to
\* expired and 1 to misses, leaves hits as it is and returns absent.
C5_ExpiredGetCountsMiss ==
  [][ (/\ last'.op = "get"
       /\ last'.key \in DOMAIN store
       /\ PastExpiry(store[last'.key]))
      => (/\ last'.key \notin DOMAIN store'
          /\ stats'.expired = stats.expired + 1
          /\ stats'.misses = stats.misses + 1
          /\ stats'.hits = stats.hits
          /\ last'.ret = Null) ]_vars

\* C6: a get of a key with an unexpired entry returns the value last set for
\* the key and adds 1 to hits; a get of a key without entry returns absent
\* and adds 1 to misses; neither changes another counter or the map.
C6_GetCountsHitOrMiss ==
  [][ last'.op = "get"
      => LET key == last'.key IN
         /\ (key \in DOMAIN store /\ ~PastExpiry(store[key]))
              => (/\ last'.ret = ValueWritten(store[key])
                  /\ stats' = [stats EXCEPT !.hits = @ + 1]
                  /\ store' = store)
         /\ key \notin DOMAIN store
              => (/\ last'.ret = Null
                  /\ stats' = [stats EXCEPT !.misses = @ + 1]
                  /\ store' = store) ]_vars

(***************************************************************************)
(* Overwrite                                                               *)
(***************************************************************************)
\* the expiry a set at this time gives: now + TTL for a positive TTL, the
\* ttl argument counting before the default TTL, and none otherwise
ExpiryOfCall(ttl) ==
  LET effective == IF ttl # NoNumber THEN ttl[1] ELSE options.defaultTTL
  IN IF effective > 0 THEN <<now + effective>> ELSE NoNumber

\* C10: a set of a key that has an entry puts the new value and the expiry
\* of the new call in its place, keeps one entry for the key and adds 1 to
\* sets; after two sets of one key, get returns the second value, with
\* sets = 2 and keys = 1.
C10_OverwriteReplacesEntry ==
  [][ /\ (last'.op = "set" /\ last'.ok /\ last'.key \in DOMAIN store)
           => \A value \in Values, ttl \in TTLs :
                CallSet(last'.key, value, ttl)
                => (/\ store'[last'.key].value = defaultSerialize(value)
                    /\ store'[last'.key].expires = ExpiryOfCall(ttl)
                    /\ DOMAIN store' = DOMAIN store
                    /\ stats'.sets = stats.sets + 1
                    /\ stats'.keys = stats.keys)
      /\ (/\ last'.op = "get"
          /\ last.op = "set" /\ last.ok /\ last.key = last'.key
          /\ stats.sets = 2 /\ stats.keys = 1)
           => (/\ last'.ret = ValueWritten(store[last'.key])
               /\ stats'.sets = 2
               /\ stats'.keys = 1) ]_vars

(***************************************************************************)
(* delete, exists, clear                                                   *)
(***************************************************************************)
\* C11: delete(k) returns true exactly when the map held an entry for k; it
\* then removes the entry and adds 1 to deletes; otherwise it returns false
\* and leaves the map and every counter as they were.
C11_DeleteReportsRemoval ==
  [][ last'.op = "delete"
      => LET key == last'.key IN
         /\ last'.ok
         /\ last'.ret = Bool(key \in DOMAIN store)
         /\ key \notin DOMAIN store'
         /\ \A k \in DOMAIN store \ {key} :
              k \in DOMAIN store' /\ store'[k] = store[k]
         /\ key \in DOMAIN store
              => /\ stats'.deletes = stats.deletes + 1
                 /\ stats'.hits = stats.hits /\ stats'.misses = stats.misses
                 /\ stats'.sets = stats.sets /\ stats'.expired = stats.expired
         /\ key \notin DOMAIN store => (store' = store /\ stats' = stats) ]_vars

\* a delete that found nothing, after a delete that removed the one entry set
C11_Witness ==
  /\ last.op = "delete"
  /\ last.ret = Bool(FALSE)
  /\ stats.deletes = 1
  /\ stats.sets = 1

\* C12: exists(k) returns true exactly when k has an entry that is not
\* expired; an expired entry is removed and adds 1 to expired; exists never
\* changes hits or misses, and changes nothing else.
C12_ExistsEvictsExpired ==
  [][ last'.op = "exists"
      => LET key == last'.key
             held == key \in DOMAIN store
         IN
         /\ last'.ok
         /\ last'.ret = Bool(held /\ ~PastExpiry(store[key]))
         /\ stats'.hits = stats.hits
         /\ stats'.misses = stats.misses
         /\ (held /\ PastExpiry(store[key]))
              => /\ store' = MapDelete(store, key)
                 /\ stats'.expired = stats.expired + 1
                 /\ stats'.sets = stats.sets /\ stats'.deletes = stats.deletes
         /\ ~(held /\ PastExpiry(store[key]))
              => (store' = store /\ stats' = stats) ]_vars

\* exists has found the one entry set expired and removed it
C12_Witness ==
  /\ last.op = "exists"
  /\ last.ret = Bool(FALSE)
  /\ stats.expired = 1
  /\ stats.sets = 1
  /\ Size = 0

\* C13: after clear the map is empty and hits, misses, sets, deletes and
\* expired are zero; a clear right after a clear changes nothing.
C13_ClearResetsEverything ==
  [][ last'.op = "clear"
      => /\ last'.ok
         /\ DOMAIN store' = {}
         /\ stats'.hits = 0 /\ stats'.misses = 0 /\ stats'.sets = 0
         /\ stats'.deletes = 0 /\ stats'.expired = 0
         /\ last.op = "clear" => (store' = store /\ stats' = stats) ]_vars

\* clear ran while an mset that has written its first entry was suspended
C13_Witness ==
  /\ last.op = "clear"
  /\ pending.op = "mset"
  /\ Size = 0
  /\ stats.sets = 0

(***************************************************************************)
(* Batches and the sweep                                                   *)
(***************************************************************************)
\* C14: mget(keys) returns a list as long as keys whose i-th element is what
\* get(keys[i]) returns, for present, absent, expired and repeated keys, and
\* it never throws.
C14_MgetIsPointwiseGet ==
  [][ last'.op = "mget"
      => \A keyList \in KeyLists :
           CallMget(keyList)
           => /\ last'.ok
              /\ Len(last'.ret.items) = Len(keyList)
              /\ \A i \in 1..Len(keyList) :
                   last'.ret.items[i]
                     = get(store, stats, keyList[i], options, now).ret ]_vars

\* an mget of two keys has found one and missed the other
C14_Witness ==
  /\ last.op = "mget"
  /\ Len(last.ret.items) = 2
  /\ last.ret.items[1] # Null
  /\ last.ret.items[2] = Null
  /\ stats.hits = 1
  /\ stats.misses = 1

\* C15: mset sets its pairs in the order of the list, one in each iteration:
\* when the set of a pair throws, the call throws, nothing is written by
\* that pair or a later one, and what the earlier pairs wrote stays written
\* and counted in sets.
C15_MsetStopsAtFirstError ==
  [][ (last'.op = "mset" /\ last'.key # NoKey)
      => LET Iteration(entries, ttl) ==
               LET key == Head(entries)[1]
                   full == key \notin DOMAIN store /\ Size >= options.maxKeys
               IN /\ last'.key = key
                  /\ full => /\ ~last'.ok
                             /\ store' = store
                             /\ stats' = stats
                             /\ pending' = Idle
                  /\ ~full => /\ last'.ok
                              /\ key \in DOMAIN store'
                              /\ store'[key].value = defaultSerialize(Head(entries)[2])
                              /\ store'[key].expires = ExpiryOfCall(ttl)
                              /\ \A k \in DOMAIN store \ {key} :
                                   k \in DOMAIN store' /\ store'[k] = store[k]
                              /\ stats'.sets = stats.sets + 1
                              /\ IF Len(entries) > 1
                                 THEN /\ pending'.op = "mset"
                                      /\ pending'.entries = Tail(entries)
                                      /\ pending'.ttl = ttl
                                 ELSE pending' = Idle
         IN IF pending.op = "mset"
            THEN Iteration(pending.entries, pending.ttl)
            ELSE \A entries \in { e \in EntryLists \ {<<>>} :
                                      Head(e)[1] = last'.key },
                      ttl \in TTLs :
                   CallMset(entries, ttl) => Iteration(entries, ttl) ]_vars

\* an mset has thrown at a full map that holds the one entry written before
C15_Witness ==
  /\ last.op = "mset"
  /\ ~last.ok
  /\ pending = Idle
  /\ stats.sets = 1
  /\ Size = 1
  /\ calls = 2

\* C16: deleteMany deletes each listed key, one in each iteration, going on
\* after a key it has deleted; deletes grows by 1 for each entry removed,
\* and the call returns true exactly when an iteration removed an entry.
C16_DeleteManyDeletesAll ==
  [][ last'.op = "deleteMany"
      => LET Iteration(keyList, any) ==
               IF Len(keyList) = 0
               THEN /\ last'.ret = Bool(FALSE)
                    /\ store' = store /\ stats' = stats /\ pending' = Idle
               ELSE LET key == Head(keyList)
                        removed == key \in DOMAIN store
                    IN /\ last'.key = key
                       /\ last'.ok
                       /\ store' = MapDelete(store, key)
                       /\ stats'.deletes
                            = stats.deletes + (IF removed THEN 1 ELSE 0)
                       /\ IF Len(keyList) > 1
                          THEN /\ pending'.op = "deleteMany"
                               /\ pending'.keys = Tail(keyList)
                               /\ pending'.deletedAny = (any \/ removed)
                          ELSE /\ pending' = Idle
                               /\ last'.ret = Bool(any \/ removed)
         IN IF pending.op = "deleteMany"
            THEN Iteration(pending.keys, pending.deletedAny)
            ELSE \A keyList \in KeyLists :
                   CallDeleteMany(keyList) => Iteration(keyList, FALSE) ]_vars

\* a deleteMany of two keys has returned true after a last key without entry
C16_Witness ==
  /\ last.op = "deleteMany"
  /\ last.ret = Bool(TRUE)
  /\ pending = Idle
  /\ stats.sets = 1
  /\ stats.deletes = 1
  /\ Size = 0
  /\ calls = 3

\* C17: cleanup removes exactly the entries whose expiry has passed, leaves
\* the other entries as they are, returns the number K of entries removed
\* and adds K to expired; hits, misses, sets and deletes stay.
C17_CleanupRemovesExpired ==
  [][ last'.op = "cleanup"
      => LET gone == { k \in DOMAIN store : PastExpiry(store[k]) } IN
         /\ last'.ok
         /\ DOMAIN store' = DOMAIN store \ gone
         /\ \A k \in DOMAIN store' : store'[k] = store[k]
         /\ last'.ret = Num(Cardinality(gone))
         /\ stats'.expired = stats.expired + Cardinality(gone)
         /\ stats'.hits = stats.hits /\ stats'.misses = stats.misses
         /\ stats'.sets = stats.sets /\ stats'.deletes = stats.deletes ]_vars

\* a cleanup has removed one expired entry and kept another entry
C17_Witness ==
  /\ last.op = "cleanup"
  /\ last.ret = Num(1)
  /\ stats.expired = 1
  /\ Size = 1

(***************************************************************************)
(* keys and the timer                                                      *)
(***************************************************************************)
\* the entries of the map whose expiry has passed
ExpiredKeys == { k \in DOMAIN store : PastExpiry(store[k]) }

\* C18: keys() first removes every expired entry, as cleanup does, and then
\* returns exactly the keys of the entries that are left.
C18_KeysEvictsExpired ==
  [][ last'.op = "keys"
      => /\ DOMAIN store' = DOMAIN store \ ExpiredKeys
         /\ stats'.expired = stats.expired + Cardinality(ExpiredKeys)
         /\ { last'.ret.items[i].s : i \in 1..Len(last'.ret.items) }
              = DOMAIN store \ ExpiredKeys
         /\ Len(last'.ret.items) = Cardinality(DOMAIN store \ ExpiredKeys) ]_vars

\* C19: while the timer is set, an entry whose expiry has passed does not
\* stay in the map for ever, whether or not a caller reads its key; the
\* sweep of the timer removes the expired entries and counts them in expired.
C19_TimerEvictsEventually ==
  /\ \A k \in Keys :
       (cleanupTimer /\ k \in ExpiredKeys)
         ~> (~cleanupTimer \/ k \notin ExpiredKeys)
  /\ [][ last'.op = "timer"
         => /\ DOMAIN store' = DOMAIN store \ ExpiredKeys
            /\ \A k \in DOMAIN store' : store'[k] = store[k]
            /\ stats'.expired = stats.expired + Cardinality(ExpiredKeys) ]_vars

\* the timer has removed an expired entry
C19_Witness ==
  /\ last.op = "timer"
  /\ last.ret = Num(1)
  /\ stats.expired = 1
  /\ Size = 0
  /\ cleanupTimer

\* the calls through which an entry leaves the map or is replaced
Removers ==
  { "get", "mget", "exists", "cleanup", "keys", "delete", "deleteMany",
    "set", "mset", "clear", "destroy" }

\* C20: the timer is set exactly when the adapter was constructed with
\* cleanupInterval > 0 and destroy has not been called, and it is never set
\* again; a sweep of the timer runs only while it is set, so never with
\* cleanupInterval = 0, where an expired entry leaves the map only through
\* a call of get, exists, cleanup, keys, delete, set, clear or destroy.
C20_TimerLifecycle ==
  /\ cleanupTimer = (options.cleanupInterval > 0)
  /\ [][ /\ cleanupTimer' = (cleanupTimer /\ last'.op # "destroy")
         /\ last'.op = "timer" => (cleanupTimer /\ options.cleanupInterval > 0)
         /\ options.cleanupInterval = 0
              => \A k \in ExpiredKeys :
                   (k \notin DOMAIN store' \/ store'[k] # store[k])
                   => last'.op \in Removers ]_vars

\* the adapter was destroyed, and an entry set afterwards has expired and
\* stays in the map
C20_Witness ==
  /\ options.cleanupInterval > 0
  /\ ~cleanupTimer
  /\ ExpiredKeys # {}
  /\ last.op = "tick"

(***************************************************************************)
(* destroy                                                                 *)
(***************************************************************************)
\* C21: destroy clears the timer and removes every entry, without error; a
\* destroy right after a destroy leaves the state as it is; once the timer
\* is cleared no sweep of the timer runs, whatever is set afterwards.
C21_DestroyIsFinal ==
  [][ /\ last'.op = "destroy"
           => /\ last'.ok
              /\ ~cleanupTimer'
              /\ DOMAIN store' = {}
              /\ last.op = "destroy"
                   => (/\ store' = store
                       /\ stats' = stats
                       /\ cleanupTimer' = cleanupTimer)
      /\ ~cleanupTimer => (~cleanupTimer' /\ last'.op # "timer") ]_vars

\* destroy was the third call on an adapter constructed with a timer, after
\* the clock has advanced
C21_Witness ==
  /\ last.op = "destroy"
  /\ options.cleanupInterval > 0
  /\ calls = 3
  /\ now = StartTime + TimeSpan
  /\ Size = 0

(***************************************************************************)
(* A codec that throws                                                     *)
(***************************************************************************)
\* C22: when serialize throws during set, the set throws and the map and
\* the counters are as before: no entry is created, an entry the key had
\* keeps its value and expiry, sets is not counted.
C22_FailedSerializeWritesNothing ==
  [][ last'.op = "set"
      => \A value \in Values, ttl \in TTLs :
           (CallSet(last'.key, value, ttl) /\ ~serialize(options, value).ok)
           => (/\ ~last'.ok
               /\ store' = store
               /\ stats' = stats) ]_vars

\* a set has thrown for a key that has an entry, so not at the limit
C22_Witness ==
  /\ last.op = "set"
  /\ ~last.ok
  /\ last.key \in DOMAIN store
  /\ options.serialization = "faulty"
  /\ stats.sets = 1

\* C23: when deserialize throws during get of an unexpired entry, the get
\* throws and the entry stays in the map with its serialized value and its
\* expiry, so that exists returns true for it.
C23_FailedDeserializeKeepsEntry ==
  [][ (/\ last'.op = "get"
       /\ last'.key \in DOMAIN store
       /\ ~PastExpiry(store[last'.key])
       /\ ~deserialize(options, store[last'.key].value).ok)
      => (/\ ~last'.ok
          /\ store' = store
          /\ exists(store', stats', last'.key, now).ret = Bool(TRUE)) ]_vars

\* a get has thrown and its entry is in the map
C23_Witness ==
  /\ last.op = "get"
  /\ ~last.ok
  /\ last.key \in DOMAIN store
  /\ options.serialization = "faulty"

(***************************************************************************)
(* The default codec, and the order of a caller's operations               *)
(***************************************************************************)
\* C24: for the default codec deserialize(serialize(v)) = v for every
\* supported value v, so every text the map holds for a value v reads back
\* as v: strings, also those that begin with ":" or ":base64:", and arrays
\* and objects that nest them at any depth.
C24_DefaultCodecRoundTrip ==
  \A key \in DOMAIN store :
    \A v \in Values :
      store[key].value = defaultSerialize(v)
        => defaultDeserialize(store[key].value) = v

\* C25: a caller's operations take effect in the order it issues them: the
\* get that follows a completed set(k, v), before the expiry, returns v and
\* the exists that follows it returns true; the get that follows a
\* delete(k) or a clear returns absent and the exists returns false.
C25_IssueOrder ==
  [][ LET key == last'.key IN
      /\ (/\ last.op = "set" /\ last.ok /\ last.key = key
          /\ key \in DOMAIN store /\ ~PastExpiry(store[key]))
           => (/\ last'.op = "get" => last'.ret = ValueWritten(store[key])
               /\ last'.op = "exists" => last'.ret = Bool(TRUE))
      /\ (\/ last.op = "delete" /\ last.key = key
          \/ last.op = "clear")
           => (/\ last'.op = "get" => last'.ret = Null
               /\ last'.op = "exists" => last'.ret = Bool(FALSE)) ]_vars

(***************************************************************************)
(* Atomicity of the single operations                                      *)
(***************************************************************************)
\* the map and the counters one completed single operation leaves, run on
\* the map and the counters given: get, set, delete, exists, clear, cleanup
\* (which is also the sweep of the timer), or keys
SingleOutcomes(map, counters) ==
  { get(map, counters, key, options, now) : key \in Keys }
  \cup { set(map, counters, entry[1], entry[2], ttl, options, now) :
           entry \in Keys \X Values, ttl \in TTLs }
  \cup { delete(map, counters, key) : key \in Keys }
  \cup { exists(map, counters, key, now) : key \in Keys }
  \cup { clear(map, counters), cleanup(map, counters, now),
         keys(map, counters) }

\* the keys whose entry the step wrote, and those whose entry it removed
Written == { k \in DOMAIN store' : k \notin DOMAIN store \/ store'[k] # store[k] }
Removed == DOMAIN store \ DOMAIN store'

\* C26: every single operation takes effect in one step, whatever calls,
\* batch iterations and sweeps interleave.  The map and its counters change
\* together: an entry is written exactly with sets + 1, entries are removed
\* exactly with deletes or expired counting them (or with all counters reset
\* by clear), and keys and memory always describe the map.  Every step is
\* one completed single operation, or for mget the gets of its keys one
\* after another.
C26_SingleOperationsAtomic ==
  [][ /\ stats'.keys = Cardinality(DOMAIN store')
      /\ stats'.memory = getMemoryUsage(store')
      /\ last'.op \in {"clear", "destroy"}
           => (DOMAIN store' = {} /\ stats' = resetStats)
      /\ last'.op \notin {"clear", "destroy"}
           => /\ Written # {} => stats'.sets = stats.sets + 1
              /\ stats'.sets = stats.sets + 1
                   <=> (/\ last'.op \in {"set", "mset"} /\ last'.ok
                        /\ last'.key \in DOMAIN store'
                        /\ Written \subseteq {last'.key})
              /\ stats'.sets \in {stats.sets, stats.sets + 1}
              /\ Cardinality(Removed)
                   = (stats'.deletes - stats.deletes)
                     + (stats'.expired - stats.expired)
              /\ stats'.deletes >= stats.deletes
              /\ stats'.expired >= stats.expired
      /\ IF last'.op = "mget"
         THEN \E first \in SingleOutcomes(store, stats) :
                \/ store' = first.store /\ stats' = first.stats
                \/ \E second \in SingleOutcomes(first.store, first.stats) :
                     store' = second.store /\ stats' = second.stats
         ELSE \/ UNCHANGED <<store, stats>>
              \/ \E out \in SingleOutcomes(store, stats) :
                   store' = out.store /\ stats' = out.stats ]_vars

\* a set of another caller has run between two iterations of an mset, and
\* has overwritten the entry the first iteration wrote
C26_Witness ==
  /\ pending.op = "mset"
  /\ last.op = "set" /\ last.ok
  /\ stats.sets = 2
  /\ Size = 1

(***************************************************************************)
(* The cumulative counters                                                 *)
(***************************************************************************)
Cumulative == {"hits", "misses", "sets", "deletes", "expired"}

\* C27: none of the counters hits, misses, sets, deletes and expired ever
\* decreases in a step that is not a clear or a destroy, and a clear or a
\* destroy leaves all five at zero.
C27_CountersMonotonic ==
  [][ IF last'.op \in {"clear", "destroy"}
      THEN \A c \in Cumulative : stats'[c] = 0
      ELSE \A c \in Cumulative : stats'[c] >= stats[c] ]_vars

\* a clear has run between the iterations of an mset, whose first set had
\* been counted
C27_Witness ==
  /\ last.op = "clear"
  /\ pending.op = "mset"
  /\ stats.sets = 0

(***************************************************************************)
(* The statistics snapshot                                                 *)
(***************************************************************************)
\* the number a snapshot holds under a name
Field(snapshot, name) ==
  snapshot.items[CHOOSE i \in 1..Len(snapshot.names) : snapshot.names[i] = name].n

KeysName == <<"k", "e", "y", "s">>
MemoryName == <<"m", "e", "m", "o", "r", "y">>

\* 2 x key length + 2 x serialized value length + 16, summed over the map
EstimateOf(map) ==
  SumOver([k \in DOMAIN map |-> 2 * Len(k) + 2 * Len(map[k].value) + 16],
          DOMAIN map)

\* C28: the keys field of every snapshot is the number of entries the map
\* holds at the call and its memory field is the sum over the entries of
\* 2 x key length + 2 x serialized value length + 16: 0 for an empty map,
\* more after the set of a new key, less after the delete of a key.
C28_SnapshotDescribesMap ==
  [][ LET before == getStats(store, stats).ret
          after == getStats(store', stats').ret IN
      /\ last'.op = "getStats"
           => (/\ Field(last'.ret, KeysName) = Cardinality(DOMAIN store)
               /\ Field(last'.ret, MemoryName) = EstimateOf(store)
               /\ DOMAIN store = {} => Field(last'.ret, MemoryName) = 0)
      /\ (last'.op = "set" /\ last'.ok /\ last'.key \notin DOMAIN store)
           => Field(after, MemoryName) > Field(before, MemoryName)
      /\ (last'.op = "delete" /\ last'.ret = Bool(TRUE))
           => Field(after, MemoryName) < Field(before, MemoryName) ]_vars

\* a snapshot has been taken of a map of two entries
C28_Witness ==
  /\ last.op = "getStats"
  /\ Size = 2
  /\ Field(last.ret, KeysName) = 2

(***************************************************************************)
(* The facade: namespace                                                   *)
(***************************************************************************)
\* ns + ":" + key for a namespace that is not empty, key for the empty one
Namespaced(key) ==
  IF Len(props.namespace) > 0 THEN props.namespace \o <<":">> \o key ELSE key

\* the arguments the facade accepts
GoodKeys == { key \in KeyArgs : key.t = "string" /\ Len(key.s) > 0 }
GoodKeyLists == { Arr(list) : list \in ListsOf(GoodKeys) }
GoodEntryLists ==
  { Arr(list) :
      list \in ListsOf({ Arr(<<key, Str(<<"v">>)>>) : key \in GoodKeys }) }

NamespacedKeys(keyList) ==
  [i \in 1..Len(keyList.items) |-> Namespaced(keyList.items[i].s)]
NamespacedEntries(entries) ==
  [i \in 1..Len(entries.items) |->
     <<Namespaced(entries.items[i].items[1].s), entries.items[i].items[2]>>]

\* C29: every key the facade passes to the adapter in get, set, delete,
\* exists, mget, mset and deleteMany is ns + ":" + key for a namespace ns that
\* is not empty, and the key itself for the empty namespace: the call is the
\* adapter's call with that key, and a value set under key is in the map
\* under ns:key and not under key.
C29_NamespacePrefixesKeys ==
  [][ /\ last'.op = "get"
           => \A key \in GoodKeys :
                KeyValueGet(key) => CallGet(Namespaced(key.s))
      /\ last'.op = "set"
           => \A key \in GoodKeys, ttl \in TTLs :
                KeyValueSet(key, Str(<<"v">>), ttl)
                => /\ last'.key = Namespaced(key.s)
                   /\ last'.ok
                        => /\ Namespaced(key.s) \in DOMAIN store'
                           /\ Len(props.namespace) > 0
                                => (key.s \in DOMAIN store'
                                      <=> key.s \in DOMAIN store)
      /\ last'.op = "delete"
           => \A key \in GoodKeys :
                KeyValueDelete(key) => CallDelete(Namespaced(key.s))
      /\ last'.op = "exists"
           => \A key \in GoodKeys :
                KeyValueExists(key) => CallExists(Namespaced(key.s))
      /\ last'.op = "mget"
           => \A keyList \in GoodKeyLists :
                KeyValueMget(keyList) => CallMget(NamespacedKeys(keyList))
      /\ (last'.op = "mset" /\ pending.op = "idle")
           => \A entries \in GoodEntryLists, ttl \in TTLs :
                KeyValueMset(entries, ttl)
                => CallMset(NamespacedEntries(entries),
                            IF ttl # NoNumber THEN ttl ELSE props.defaultTTL)
      /\ (last'.op = "deleteMany" /\ pending.op = "idle")
           => \A keyList \in GoodKeyLists :
                KeyValueDeleteMany(keyList)
                => CallDeleteMany(NamespacedKeys(keyList))
      /\ \A key \in DOMAIN store' :
           \E good \in GoodKeys : key = Namespaced(good.s) ]_vars

\* a value set through a facade with namespace "n" under key "a" is in the
\* map under "n:a", and the map has no key "a"
C29_Witness ==
  /\ props.namespace = <<"n">>
  /\ last.op = "set" /\ last.ok
  /\ last.key = <<"n", ":", "a">>
  /\ <<"n", ":", "a">> \in DOMAIN store
  /\ <<"a">> \notin DOMAIN store

(***************************************************************************)
(* The facade: validation                                                  *)
(***************************************************************************)
\* an empty or non-string key; a batch argument that is not an array or
\* that has an element with such a key or with an undefined value
BadKey(key) == key.t # "string" \/ Len(key.s) = 0
BadKeyList(keyList) ==
  \/ keyList.t # "array"
  \/ \E i \in 1..Len(keyList.items) : BadKey(keyList.items[i])
BadEntryList(entries) ==
  \/ entries.t # "array"
  \/ \E i \in 1..Len(entries.items) :
       \/ BadKey(entries.items[i].items[1])
       \/ entries.items[i].items[2].t = "undefined"

\* the step is a call that threw and has read, written and deleted nothing
Rejected ==
  /\ ~last'.ok
  /\ store' = store
  /\ stats' = stats
  /\ pending' = pending

\* C30: a call of the facade with an empty or non-string key, an undefined
\* value or a batch argument that is not an array throws and leaves the map
\* and the counters as they were; so does an mget, mset or deleteMany with a
\* single invalid element, of which no element is read, written or deleted.
C30_InvalidArgumentsRejected ==
  [][ \/ Rejected
      \/ /\ \A key \in KeyArgs :
              BadKey(key)
              => /\ ~KeyValueGet(key)
                 /\ ~KeyValueDelete(key)
                 /\ ~KeyValueExists(key)
         /\ last'.op = "set"
              => \A key \in KeyArgs, value \in ValueArgs, ttl \in TTLs :
                   (BadKey(key) \/ value.t = "undefined")
                   => ~KeyValueSet(key, value, ttl)
         /\ last'.op \in {"mget", "deleteMany"}
              => \A keyList \in KeyListArgs :
                   BadKeyList(keyList)
                   => /\ ~KeyValueMget(keyList)
                      /\ ~KeyValueDeleteMany(keyList)
         /\ last'.op = "mset"
              => \A entries \in EntryListArgs, ttl \in TTLs :
                   BadEntryList(entries) => ~KeyValueMset(entries, ttl) ]_vars

\* a deleteMany, which the adapter never fails, has thrown while the map
\* holds an entry and the counters are not zero
C30_Witness ==
  /\ last.op = "deleteMany"
  /\ ~last.ok
  /\ Size = 1
  /\ stats.sets = 1
  /\ calls = 2

(***************************************************************************)
(* A TTL that is not positive                                              *)
(***************************************************************************)
\* the TTL a set works with: the ttl argument, or else the default TTL
EffectiveOf(ttl) == IF ttl # NoNumber THEN ttl[1] ELSE options.defaultTTL

\* C31: set writes the expiry now + TTL only for an effective TTL that is
\* positive; for an effective TTL that is zero or negative it writes an
\* entry without expiry, which the get that follows finds.
C31_ExpiryOnlyForPositiveTTL ==
  [][ /\ (last'.op = "set" /\ last'.ok)
           => \A value \in Values, ttl \in TTLs \cup {NegativeTTL} :
                CallSet(last'.key, value, ttl)
                => store'[last'.key].expires
                     = IF EffectiveOf(ttl) > 0
                       THEN <<now + EffectiveOf(ttl)>>
                       ELSE NoNumber
      /\ (/\ last.op = "set" /\ last.ok /\ last.key \in DOMAIN store
          /\ store[last.key].expires # NoNumber
          /\ store[last.key].expires[1] < now
          /\ last'.key = last.key)
           => (/\ last'.op = "get" => last'.ret # Null
               /\ last'.op = "exists" => last'.ret = Bool(TRUE)) ]_vars

(***************************************************************************)
(* The event-emitting adapter: error events                                *)
(***************************************************************************)
\* the error events the last call delivered to the i-th error handler
ErrorsDeliveredTo(i, delivered) ==
  { n \in 1..Len(delivered) :
      delivered[n].handler = i /\ delivered[n].type = "error" }

\* C32: with events enabled, a set rejected because the map is full
\* delivers exactly one error event to each error handler, and the event
\* carries the key of the set.
C32_OneErrorEventPerRejectedSet ==
  [][ (/\ last'.op = "set"
       /\ options.emitEvents
       /\ last'.key \notin DOMAIN store
       /\ Cardinality(DOMAIN store) >= options.maxKeys)
      => /\ ~last'.ok
         /\ \A i \in 1..Len(events.observers["error"]) :
              /\ Cardinality(ErrorsDeliveredTo(i, events'.delivered)) = 1
              /\ \A n \in ErrorsDeliveredTo(i, events'.delivered) :
                   events'.delivered[n].key = last'.key ]_vars

(***************************************************************************)
(* The event-emitting adapter: subscribers do not interfere                *)
(***************************************************************************)
\* what a caller and the map see of a call: the map, the counters, whether
\* the call returned, and its result
Visible(out) ==
  [store |-> out.store, stats |-> out.stats, ok |-> out.ok, ret |-> out.ret]

\* what the step has left of them
Seen == [store |-> store', stats |-> stats', ok |-> last'.ok, ret |-> last'.ret]

\* C34: the adapter behaves the same whatever is subscribed.  From the
\* same map, counters and time, every operation leaves the same map and
\* counters and returns the same result with no subscriber, with a
\* subscriber, and with a subscriber whose handler throws; so the same
\* operations at the same times give the same results, entries and counters.
C34_SubscribersDoNotInterfere ==
  [][ LET key == last'.key
          Same(Op(_)) == \A setup \in ObserverSetups : Visible(Op(setup)) = Seen
      IN
      /\ last'.op = "get"
           => Same(LAMBDA o : basicGet(store, stats, key, options, now, o))
      /\ last'.op = "set"
           => \A value \in Values, ttl \in TTLs :
                BasicCallSet(key, value, ttl)
                => Same(LAMBDA o : basicSet(store, stats, key, value, ttl,
                                            options, now, o))
      /\ last'.op = "delete"
           => Same(LAMBDA o : basicDelete(store, stats, key, options, o))
      /\ last'.op = "exists"
           => Same(LAMBDA o : basicExists(store, stats, key, options, now, o))
      /\ last'.op = "clear"
           => Same(LAMBDA o : basicClear(store, stats, options, o))
      /\ last'.op \in {"cleanup", "timer"}
           => Same(LAMBDA o : basicCleanup(store, stats, options, now, o))
      /\ last'.op = "keys"
           => Same(LAMBDA o : basicKeys(store, stats, options, now, o))
      /\ last'.op = "mget"
           => \A keyList \in KeyLists :
                BasicCallMget(keyList)
                => Same(LAMBDA o : basicMget(store, stats, keyList, options,
                                             now, o))
      /\ (last'.op = "mset" /\ pending.op = "mset")
           => Same(LAMBDA o : basicSet(store, stats, key,
                                       Head(pending.entries)[2], pending.ttl,
                                       options, now, o))
      /\ (last'.op = "mset" /\ pending.op = "idle" /\ key # NoKey)
           => \A entries \in { list \in EntryLists :
                                 Len(list) > 0 /\ Head(list)[1] = key },
                 ttl \in TTLs :
                BasicCallMset(entries, ttl)
                => Same(LAMBDA o : basicSet(store, stats, key,
                                            Head(entries)[2], ttl, options,
                                            now, o))
      /\ (last'.op = "deleteMany" /\ key # NoKey)
           => \A setup \in ObserverSetups :
                LET out == basicDelete(store, stats, key, options, setup)
                IN out.store = store' /\ out.stats = stats'
                   /\ out.ok = last'.ok
    ]_vars

\* a set has returned after its event went to a handler that threw and then
\* to one that recorded it
C34_Witness ==
  /\ events.observers["set"] = <<"throws", "records">>
  /\ last.op = "set" /\ last.ok
  /\ Len(events.delivered) = 2
  /\ events.delivered[2].type = "set"

(***************************************************************************)
(* The facade: errors of the adapter                                       *)
(***************************************************************************)
\* the adapter call of the get or set of the facade in this step throws: the
\* entry of the key cannot be decoded, or the map is full
AdapterCallFails ==
  \/ /\ last'.op = "get"
     /\ last'.key \in DOMAIN store
     /\ ~get(store, stats, last'.key, options, now).ok
  \/ /\ last'.op = "set"
     /\ last'.key # NoKey
     /\ last'.key \notin DOMAIN store
     /\ Cardinality(DOMAIN store) >= options.maxKeys

\* C33: when the adapter call of a facade call fails, the facade throws the
\* error with throwOnErrors = true, and with throwOnErrors = false it does
\* not throw.
C33_ThrowOnErrorsDecides ==
  [][ AdapterCallFails
      => /\ props.throwOnErrors => ~last'.ok
         /\ ~props.throwOnErrors => last'.ok ]_vars

(***************************************************************************)
(* One test of expiry                                                      *)
(***************************************************************************)
\* the entry has no expiry, or the clock is not past it
Live(entry) == entry.expires = NoNumber \/ now <= entry.expires[1]

\* C35: get, exists and cleanup treat an entry with expiry E as expired at
\* time t exactly when t > E.  At t <= E get returns the entry, exists
\* reports it and cleanup (called, or run by the timer) keeps it; at t > E
\* get and exists report it absent and remove it, and cleanup removes it.
\* So at any time exists is true of a key exactly when get finds a live
\* entry and cleanup keeps it.
C35_OneExpiryTest ==
  [][ /\ \A key \in DOMAIN store :
           /\ (last'.op = "get" /\ last'.key = key)
                => IF Live(store[key])
                   THEN /\ last'.ret = defaultDeserialize(store[key].value)
                        /\ stats'.hits = stats.hits + 1
                        /\ store' = store
                   ELSE /\ last'.ret = Null
                        /\ key \notin DOMAIN store'
           /\ (last'.op = "exists" /\ last'.key = key)
                => IF Live(store[key])
                   THEN last'.ret = Bool(TRUE) /\ store' = store
                   ELSE last'.ret = Bool(FALSE) /\ key \notin DOMAIN store'
           /\ last'.op \in {"cleanup", "timer"}
                => (key \in DOMAIN store' <=> Live(store[key]))
           /\ LET found == exists(store, stats, key, now).ret = Bool(TRUE)
              IN /\ found <=> key \in DOMAIN get(store, stats, key, options,
                                                  now).store
                 /\ found <=> key \in DOMAIN cleanup(store, stats, now).store
                 /\ found <=> Live(store[key]) ]_vars

\* a get has returned an entry at the very time of its expiry
C35_Witness ==
  /\ last.op = "get"
  /\ last.key \in DOMAIN store
  /\ store[last.key].expires = <<now>>
  /\ stats.hits = 1

(***************************************************************************)
(* Expired entries that are still in the map                               *)
(***************************************************************************)
\* C36: an entry that has expired and is still in the map counts against
\* maxKeys and in the keys of a snapshot.  With maxKeys entries in the map,
\* expired or not, the set of a new key throws and writes nothing; once a
\* get, exists, cleanup, delete, clear or sweep of the timer has removed an
\* entry, the set of a new key is accepted.
C36_ExpiredEntriesOccupyCapacity ==
  [][ /\ (/\ last'.op \in {"set", "mset"}
          /\ last'.key # NoKey
          /\ last'.key \notin DOMAIN store
          /\ Cardinality(DOMAIN store) = options.maxKeys)
           => (~last'.ok /\ store' = store /\ stats' = stats)
      /\ last'.op = "getStats"
           => Field(last'.ret, KeysName) = Cardinality(DOMAIN store)
      /\ (/\ Cardinality(DOMAIN store) = options.maxKeys
          /\ Cardinality(DOMAIN store') < options.maxKeys)
           => /\ last'.op \in {"get", "exists", "cleanup", "delete", "clear",
                               "timer", "mget", "deleteMany", "destroy"}
              /\ \A key \in Keys \ DOMAIN store', value \in Values :
                   set(store', stats', key, value, NoNumber, options, now).ok
    ]_vars

\* the set of a new key has been rejected by a map in which every entry has
\* expired
C36_Witness ==
  /\ last.op = "set"
  /\ ~last.ok
  /\ last.key \notin DOMAIN store
  /\ Size = options.maxKeys
  /\ \A k \in DOMAIN store : PastExpiry(store[k])

\* C37: an expired entry that delete, set or clear removes is not counted
\* as expired.  delete of its key returns true and counts one delete, set
\* of its key leaves a live entry holding the new text, clear leaves the
\* counter at zero; in every step the counter grows by the number of entries
\* that get, exists, cleanup and the timer's sweep have removed, and only
\* clear and destroy reset it.
Evicting == {"get", "exists", "cleanup", "timer", "mget"}

Resetting == {"clear", "destroy"}

C37_ExpiredCountsEvictionsOnly ==
  [][ LET key == last'.key
          op == last'.op
          wasExpired == /\ key # NoKey
                        /\ key \in DOMAIN store
                        /\ PastExpiry(store[key])
      IN /\ (op \in {"delete", "deleteMany"} /\ wasExpired)
              => /\ key \notin DOMAIN store'
                 /\ stats'.deletes = stats.deletes + 1
                 /\ stats'.expired = stats.expired
                 /\ op = "delete" => last'.ret = Bool(TRUE)
         /\ (op \in {"set", "mset"} /\ wasExpired /\ last'.ok)
              => /\ key \in DOMAIN store'
                 /\ ~isExpired(store'[key], now')
                 /\ \E value \in Values :
                      store'[key].value = serialize(options, value).text
                 /\ stats'.expired = stats.expired
         /\ stats'.expired =
              IF op \in Resetting THEN 0
              ELSE IF op \in Evicting
                   THEN stats.expired
                          + Cardinality(DOMAIN store \ DOMAIN store')
                   ELSE stats.expired
    ]_vars

\* a delete has returned true at the last instant of the clock on an adapter
\* that has made one set and one delete, and nothing has been counted as
\* expired
C37_Witness ==
  /\ last.op = "delete"
  /\ last.ret = Bool(TRUE)
  /\ now = StartTime + TimeSpan
  /\ stats.sets = 1
  /\ stats.deletes = 1
  /\ stats.expired = 0

(***************************************************************************)
(* The counters of get                                                     *)
(***************************************************************************)
\* the gets accounted for by the counters: hits, misses and evictions
Accounted(counters) == counters.hits + counters.misses + counters.expired

NullText == <<"n", "u", "l", "l">>

\* C39: null and undefined are both stored as the text null.  A get of such
\* a key returns null, as the get of a key without entry does, counts a hit
\* and no miss and leaves the entry; exists returns true for it.
C39_StoredNullReadsAsAbsent ==
  [][ /\ \A key \in Keys, value \in Nullish :
           LET written == set(store, stats, key, value, NoNumber, options, now)
               read == get(written.store, written.stats, key, options, now)
               absent == get(MapDelete(written.store, key), written.stats, key,
                             options, now)
               found == exists(written.store, written.stats, key, now)
           IN written.ok
                => /\ written.store[key].value = NullText
                   /\ read.ok /\ read.ret = Null
                   /\ absent.ok /\ absent.ret = read.ret
                   /\ read.stats.hits = written.stats.hits + 1
                   /\ read.stats.misses = written.stats.misses
                   /\ absent.stats.misses = written.stats.misses + 1
                   /\ found.ret = Bool(TRUE)
      /\ (/\ last'.op = "get"
          /\ last'.key \in DOMAIN store
          /\ ~PastExpiry(store[last'.key])
          /\ store[last'.key].value = NullText)
           => /\ last'.ok /\ last'.ret = Null
              /\ stats' = [stats EXCEPT !.hits = @ + 1]
              /\ store' = store
      /\ (/\ last'.op = "exists"
          /\ last'.key \in DOMAIN store
          /\ ~PastExpiry(store[last'.key])
          /\ store[last'.key].value = NullText)
           => last'.ret = Bool(TRUE) /\ store' = store
    ]_vars

\* a get has returned null for a key that has an entry, and counted a hit
C39_Witness ==
  /\ last.op = "get"
  /\ last.ok
  /\ last.ret = Null
  /\ last.key \in DOMAIN store
  /\ store[last.key].value = NullText
  /\ stats.hits = 1
  /\ stats.misses = 0

(***************************************************************************)
(* Batches and other callers                                               *)
(***************************************************************************)
\* the gets of the keys of a list of at most two keys, made one after the
\* other on the current map at the current time
ReadsOf(keyList) ==
  IF Len(keyList) = 0 THEN Outcome(store, stats, TRUE, Arr(<<>>))
  ELSE LET first == get(store, stats, keyList[1], options, now)
       IN IF Len(keyList) = 1 THEN first
          ELSE get(first.store, first.stats, keyList[2], options, now)

Suspended == pending.op \in {"mset", "deleteMany"}

\* C40: an mget makes the reads of all its keys in one step: the map and
\* the counters after it are those of its gets made one after the other on
\* the map before it, at one time, and it is never suspended.  An mset or a
\* deleteMany that has elements left is suspended between two elements:
\* while it is, the call of another caller can run, and it leaves the
\* suspended batch as it was; the callback of the timer cannot.
C40_MgetAtomicBatchesYield ==
  [][ /\ last'.op = "mget"
           => /\ \E keyList \in KeyLists :
                   /\ store' = ReadsOf(keyList).store
                   /\ stats' = ReadsOf(keyList).stats
                   /\ calls' = calls + BatchCost(keyList)
              /\ now' = now
              /\ pending' = pending
      /\ last'.op = "timer" => ~Suspended
      /\ (Suspended /\ calls < MaxCalls)
           => /\ \A key \in Keys :
                   /\ ENABLED CallGet(key)
                   /\ ENABLED CallDelete(key)
                   /\ ENABLED CallExists(key)
              /\ ENABLED CallClear
              /\ ~ENABLED startCleanup
      /\ (Suspended /\ last'.op \notin {"mset", "deleteMany", "destroy"})
           => pending' = pending
    ]_vars

\* between two elements of an mset, another caller has deleted the entry
\* that the first element wrote
C40_Witness ==
  /\ pending.op = "mset"
  /\ Len(pending.entries) = 1
  /\ last.op = "delete"
  /\ last.ret = Bool(TRUE)
  /\ stats.sets = 1
  /\ stats.deletes = 1
  /\ store = [k \in {} |-> Null]

====
